---- MODULE Spec2Model ----
(***************************************************************************)
(* MolID: archive ingestion (molid/db/offline_db_cli.py update_database)   *)
(* and tiered search (molid/search/service.py SearchService.search).       *)
(*                                                                         *)
(* SpecIngest: repeated runs of update_database over a remote that holds   *)
(*   a full snapshot and monthly deltas.                                   *)
(* SpecSearch: repeated calls of SearchService.search in auto mode.        *)
(* SpecDirect: SearchService built for one fixed mode, then searched.      *)
(* SpecLookup: the bulk-store lookups by Key (db_lookup, offline, query).  *)
(* SpecPlan: update_database planning on ledgers left by earlier runs.     *)
(* SpecDownload: download_file_with_resume (molid/utils/ftp_utils.py).     *)
(* SpecAttempt: one call of attempt_download on any partial file.          *)
(* SpecCrash: SpecIngest with runs that may be interrupted part-way.       *)
(* SpecWorkers: two online-cached searches writing one cache.              *)
(* SpecSave: save_to_database on any store (molid/db/db_utils.py).         *)
(* SpecFormula: one formula searched for under two spellings.              *)
(* SpecValidate: searches in every mode, malformed queries among them.     *)
(* SpecCas: registry numbers enriched and attached (molid/db/cas_enrich).  *)
(* SpecLedger: sequences of upserts on the processed_archives table.       *)
(* SpecResume: validate_start_position on any local file.                  *)
(* SpecIupac: the display name of a record fetched by fetch_molecule_data. *)
(* SpecProcess: process_file on any .sdf file of a few lines.              *)
(* SpecEnrich: enrich_cas_for_cids run repeatedly over one cas_mapping.    *)
(***************************************************************************)
EXTENDS Integers, Sequences, FiniteSets, TLC

(***************************************************************************)
(* Bounds of the model                                                     *)
(***************************************************************************)
NFull == 4          \* archives in the remote full-snapshot directory
MaxRuns == 2        \* runs of update_database in one behaviour
MaxFaults == 3      \* failures injected by the environment in one behaviour
MaxSearches == 3    \* calls of SearchService.search in one behaviour
MaxLookups == 2     \* bulk-store lookups in one behaviour
NCompounds == 2     \* compounds known to the remote service
MaxSize == 3        \* largest size of a remote file, in blocks
MaxKeys == 2        \* most identifier/value pairs in one query
MaxRns == 3         \* most registry numbers in one cross-reference list
MaxUpserts == 3     \* calls of upsert_archive_state in one behaviour

\* offline_db_cli.py:29
MAX_CONSECUTIVE_FAILURES == 3

\* ftp_utils.py:81, default of download_file_with_resume(max_retries=)
max_retries == 5

\* ftp_utils.py:84, the first backoff in seconds
INITIAL_BACKOFF == 5

VARIABLES
    \* ---- ingestion: persistent stores and folders
    ledger,         \* processed_archives: archive -> row
    compound_data,  \* compound_data: CID (one per archive) -> stored version
    gzFile,         \* download folder: archive -> content of <name>.sdf.gz
    md5File,        \* download folder: archive -> content of <name>.sdf.gz.md5
    sdfFile,        \* processed folder: archive -> extracted .sdf present
    fsInit,         \* schema created and folders made (init_db, os.makedirs)
    \* ---- ingestion: the remote and the clock
    remoteVer,      \* archive -> version of the remote archive body
    today,          \* current UTC day
    \* ---- ingestion: one run of update_database
    pc,             \* position in update_database
    call,           \* the latest call: its max_files, and whether the disk had room
    plan,           \* the planned archives of this run
    idx,            \* index into plan of the archive being processed
    consecutive_failures,
    runs,           \* runs started so far
    faults,         \* failures injected so far
    log,            \* the archive processed last and the steps taken for it
    outcomes,       \* how each archive of this run ended, in plan order
    \* ---- search
    master,         \* bulk store file: "missing" | "unreadable" | "ok"
    masterCids,     \* CIDs of the rows in compound_data of the bulk store
    cacheDir,       \* the cache directory is writable
    cacheFile,      \* the cache store file exists
    cache,          \* cached_molecules: set of rows
    remoteCalls,    \* remote lookups issued so far
    spc,            \* position in SearchService.search
    query,          \* the query being served, with the service's priority list
    tierIdx,        \* index into the priority list
    tried,          \* per tier of the priority list so far: what happened to it
    result,         \* outcome of the finished search
    searches,       \* searches started so far
    \* ---- bulk-store lookups by Key
    lkFile,         \* the store file: "missing" | "ok"
    lkRows,         \* CIDs of the rows of compound_data
    lkCol,          \* compound_data has an InChIKey14 column
    lkOut,          \* the lookup made last and what it returned
    lookups,        \* lookups made so far
    \* ---- download_file_with_resume
    dpc,            \* position in download_file_with_resume
    attempt,        \* the loop variable
    localSize,      \* size of the local file, -1 when there is none
    ftpSize,        \* size of the remote file
    backoff,        \* seconds to sleep after the next failure
    ret,            \* what the call returned
    \* ---- single functions applied to drawn arguments
    applied,        \* the function applied last, its arguments and its outcome
    \* ---- online-cached searches running side by side
    workers         \* per search in flight: where it is, its query, what it fetched

ingestVars == <<ledger, compound_data, gzFile, md5File, sdfFile, fsInit,
                remoteVer, today, pc, call, plan, idx, consecutive_failures,
                runs, faults, log, outcomes>>
searchVars == <<master, masterCids, cacheDir, cacheFile, cache, remoteCalls, spc,
                query, tierIdx, tried, result, searches>>
lookupVars == <<lkFile, lkRows, lkCol, lkOut, lookups>>
downloadVars == <<dpc, attempt, localSize, ftpSize, backoff, ret>>
applyVars == <<applied>>
workerVars == <<workers>>
auxVars == <<lookupVars, downloadVars, applyVars, workerVars>>
vars == <<ingestVars, searchVars, auxVars>>

(***************************************************************************)
(* Archives and their contents                                             *)
(***************************************************************************)
FullArchives == 1..NFull
\* the monthly directory holds one delta archive
MonthlyArchives == {NFull + 1}
Archives == FullArchives \cup MonthlyArchives

\* the date embedded in a monthly archive's name
MDate(a) == a - NFull

\* md5 of a file's content: distinct modelled contents have distinct hashes
Md5Of(content) ==
    CASE content = "v1" -> "h1"
      [] content = "v2" -> "h2"
      [] content = "corrupt" -> "hx"
      [] OTHER -> "none"

NoRow == [status |-> "absent", md5 |-> "none", last_error |-> "none",
          last_ingested |-> 0, source |-> "none"]

\* get_archive_state: the row, or None ("absent") when the name was never upserted
get_archive_state(l, name) == l[name]

\* upsert_archive_state(db, name, status=, source=, md5=, last_ingested=,
\* last_error=): a column that is not passed ("keep", -1) keeps its stored value
upsert_archive_state(l, name, status, source, md5, last_ingested, last_error) ==
    [l EXCEPT ![name] =
        [status |-> status,
         source |-> source,
         md5 |-> IF md5 = "keep" THEN l[name].md5 ELSE md5,
         last_ingested |-> IF last_ingested = -1 THEN l[name].last_ingested
                           ELSE last_ingested,
         last_error |-> IF last_error = "keep" THEN l[name].last_error
                        ELSE last_error]]

\* read_expected_md5: the hash written in a checksum file (None if there is none)
read_expected_md5(content) == content

\* verify_md5(gz, md5): the archive's md5 equals the one in the checksum file
verify_md5(gz, md5) ==
    /\ read_expected_md5(md5) # "none"
    /\ Md5Of(gz) = read_expected_md5(md5)

Max(S) == CHOOSE x \in S : \A y \in S : y <= x

\* a MAX(last_ingested) taken over every row of the ledger
get_last_touched_date(l) ==
    LET S == {l[a].last_ingested : a \in {b \in Archives : l[b].status # "absent"}}
    IN IF S = {} THEN 0 ELSE Max(S)

\* _get_last_ingested_date: MAX(last_ingested) over status = 'ingested', or None (0)
get_last_ingested_date(l) ==
    LET S == {l[a].last_ingested : a \in {b \in Archives : l[b].status = "ingested"}}
    IN IF S = {} THEN 0 ELSE Max(S)

RECURSIVE SortedSeq(_)
SortedSeq(S) ==
    IF S = {} THEN <<>>
    ELSE LET m == CHOOSE x \in S : \A y \in S : x <= y
         IN <<m>> \o SortedSeq(S \ {m})

\* get_changed_sdf_files(ftp, since): the full snapshot when since is None,
\* else the monthly archives dated at or after since
get_changed_sdf_files(since) ==
    IF since = 0 THEN SortedSeq(FullArchives)
    ELSE SortedSeq({a \in MonthlyArchives : MDate(a) >= since})

SourceOf(a) == IF a \in FullArchives THEN "full" ELSE "monthly"

\* values of the max_files argument: None (0), or a cap below the longest plan
MaxFilesChoices == 0..(NFull - 1)

\* plan[:max_files] when max_files is truthy
CapPlan(p, max_files) ==
    IF max_files # 0 /\ Len(p) > max_files THEN SubSeq(p, 1, max_files) ELSE p

Range(s) == {s[i] : i \in 1..Len(s)}

(***************************************************************************)
(* Init                                                                    *)
(***************************************************************************)
NoLog == [a |-> 0, steps |-> <<>>]
NoCall == [max_files |-> 0, disk_ok |-> TRUE]

\* a fresh store, or one whose full snapshot was ingested on day 1
IngestInit(seeded) ==
    /\ ledger = [a \in Archives |->
                   IF seeded /\ a \in FullArchives
                   THEN [status |-> "ingested", md5 |-> "h1", last_error |-> "none",
                         last_ingested |-> 1, source |-> "full"]
                   ELSE NoRow]
    /\ compound_data = [a \in Archives |->
                          IF seeded /\ a \in FullArchives THEN "v1" ELSE "none"]
    /\ md5File = [a \in Archives |->
                    IF seeded /\ a \in FullArchives THEN "h1" ELSE "none"]
    /\ fsInit = seeded
    /\ gzFile = [a \in Archives |-> "none"]
    /\ sdfFile = [a \in Archives |-> FALSE]
    /\ remoteVer = [a \in Archives |-> "v1"]
    /\ today = 1
    /\ pc = "idle"
    /\ call = NoCall
    /\ plan = <<>>
    /\ idx = 1
    /\ consecutive_failures = 0
    /\ runs = 0
    /\ faults = 0
    /\ log = NoLog
    /\ outcomes = <<>>

NoQuery == [type |-> "none", c |-> 0, priority |-> <<>>, mode |-> "none"]
NoResult == [kind |-> "none", exc |-> "none", records |-> <<>>, source |-> "none",
             tier |-> "none"]

NoLookup == [fn |-> "none", c |-> 0, kind |-> "none", exc |-> "none",
             records |-> <<>>, matched_full |-> FALSE]

\* no lookup made yet, on an empty store without the prefix column
LookupAtRest ==
    /\ lkFile = "ok"
    /\ lkRows = {}
    /\ lkCol = FALSE
    /\ lkOut = NoLookup
    /\ lookups = 0

\* no download under way, nothing in the download folder
NothingApplied == applied = [fn |-> "none"]

\* the two searches that may run at the same time
Workers == {"w1", "w2"}
Resting == [pc |-> "idle", type |-> "none", c |-> 0, api |-> <<>>]
WorkersAtRest == workers = [w \in Workers |-> Resting]

DownloadAtRest ==
    /\ dpc = "idle"
    /\ attempt = 0
    /\ localSize = -1
    /\ ftpSize = 1
    /\ backoff = 0
    /\ ret = "pending"

\* the search side at rest, with a writable empty cache and a readable bulk store
InitSearchVars ==
    /\ master = "ok"
    /\ masterCids = {}
    /\ cacheDir = TRUE
    /\ cacheFile = FALSE
    /\ cache = {}
    /\ remoteCalls = 0
    /\ spc = "idle"
    /\ query = NoQuery
    /\ tierIdx = 1
    /\ tried = <<>>
    /\ result = NoResult
    /\ searches = 0

(***************************************************************************)
(* update_database                                                         *)
(***************************************************************************)
Logged(step) == [log EXCEPT !.steps = Append(@, step)]

\* the environment may still inject a failure
CanFail == faults < MaxFaults

\* the loop's record of finished archives: the step that ended the archive is
\* added when the loop moves on or stops
Recorded ==
    IF idx' # idx \/ pc' = "idle"
    THEN Append(outcomes, log'.steps[Len(log'.steps)])
    ELSE outcomes

\* a `continue` that leaves the counter as it was
ContinueKeepingCounter(cf) ==
    /\ consecutive_failures' = consecutive_failures
    /\ idx' = idx + 1
    /\ pc' = IF idx + 1 > Len(plan) THEN "idle" ELSE "loop"

\* the loop's `continue` / the end of the loop body: on to the next planned archive
Continue(cf) ==
    /\ consecutive_failures' = cf
    /\ idx' = idx + 1
    /\ pc' = IF idx + 1 > Len(plan) THEN "idle" ELSE "loop"

\* a loop that never tests the counter
NeverBreak(cf) == Continue(cf)

\* lines 115-117, 172-174, 183-185: `break` once the counter reached the maximum
BreakOrContinue(cf) ==
    IF cf >= MAX_CONSECUTIVE_FAILURES
    THEN /\ consecutive_failures' = cf
         /\ idx' = idx
         /\ pc' = "idle"
    ELSE Continue(cf)

\* lines 57-89: schema, folders, disk-space check, plan
StartRun ==
    /\ pc = "idle"
    /\ runs < MaxRuns
    /\ runs' = runs + 1
    /\ fsInit' = TRUE
    /\ \E diskOk \in BOOLEAN, max_files \in MaxFilesChoices :
         /\ call' = [max_files |-> max_files, disk_ok |-> diskOk]
         /\ IF ~diskOk
            THEN \* sys.exit(1)
                 /\ max_files = 0
                 /\ pc' = "idle"
                 /\ UNCHANGED <<plan, idx, consecutive_failures, log, outcomes>>
            ELSE LET p == CapPlan(get_changed_sdf_files(get_last_ingested_date(ledger)),
                                  max_files)
                 IN /\ plan' = p
                    /\ idx' = 1
                    /\ consecutive_failures' = 0
                    /\ log' = NoLog
                    /\ outcomes' = <<>>
                    /\ pc' = IF Len(p) = 0 THEN "idle" ELSE "loop"
    /\ UNCHANGED <<ledger, compound_data, gzFile, md5File, sdfFile, remoteVer, today,
                   faults>>
    /\ UNCHANGED <<searchVars, auxVars>>

\* lines 176-185: the except clause of the loop body
HandleException(a) ==
    /\ ledger' = upsert_archive_state(ledger, a, "failed", SourceOf(a),
                                      "keep", -1, "exception")
    /\ BreakOrContinue(consecutive_failures + 1)

\* line 103: the remote checksum was read and equals the one in the ledger
\* a comparison that only asks whether an MD5 could be fetched
UpstreamFetched(new_md5, state) == new_md5 # "none"

UpstreamUnchanged(new_md5, state) == new_md5 # "none" /\ new_md5 = state.md5

\* lines 91-107: next planned archive; skip it if ingested and unchanged upstream
BeginArchive ==
    /\ pc = "loop"
    /\ idx <= Len(plan)
    /\ LET a == plan[idx]
           state == get_archive_state(ledger, a)
       IN \/ /\ state.status # "ingested"
             /\ log' = [a |-> a, steps |-> <<"begin">>]
             /\ pc' = "dl_gz"
             /\ UNCHANGED <<ledger, md5File, idx, consecutive_failures, faults>>
          \/ \* could not fetch the MD5: re-download anyway
             /\ state.status = "ingested"
             /\ CanFail
             /\ faults' = faults + 1
             /\ md5File' = [md5File EXCEPT ![a] = "none"]
             /\ log' = [a |-> a, steps |-> <<"begin", "md5_unfetched">>]
             /\ pc' = "dl_gz"
             /\ UNCHANGED <<ledger, idx, consecutive_failures>>
          \/ /\ state.status = "ingested"
             /\ md5File' = [md5File EXCEPT ![a] = Md5Of(remoteVer[a])]
             /\ LET new_md5 == read_expected_md5(Md5Of(remoteVer[a]))
                IN IF UpstreamUnchanged(new_md5, state)
                   THEN /\ log' = [a |-> a, steps |-> <<"begin", "skip">>]
                        /\ Continue(0)
                        /\ UNCHANGED <<ledger, faults>>
                   ELSE /\ log' = [a |-> a, steps |-> <<"begin", "md5_changed">>]
                        /\ pc' = "dl_gz"
                        /\ UNCHANGED <<ledger, idx, consecutive_failures, faults>>
    /\ outcomes' = Recorded
    /\ UNCHANGED <<compound_data, gzFile, sdfFile, fsInit, remoteVer, today, call, plan, runs>>
    /\ UNCHANGED <<searchVars, auxVars>>

\* lines 109-118: download the archive body
DownloadArchive ==
    /\ pc = "dl_gz"
    /\ LET a == plan[idx]
       IN \/ \* download_file_with_resume returned None, no local file left
             /\ CanFail
             /\ faults' = faults + 1
             /\ gzFile' = [gzFile EXCEPT ![a] = "none"]
             /\ log' = Logged("dl_fail")
             /\ BreakOrContinue(consecutive_failures + 1)
          \/ \* the size matches but the bytes do not
             /\ CanFail
             /\ faults' = faults + 1
             /\ gzFile' = [gzFile EXCEPT ![a] = "corrupt"]
             /\ log' = Logged("downloaded")
             /\ pc' = "dl_md5"
             /\ UNCHANGED <<idx, consecutive_failures>>
          \/ /\ gzFile' = [gzFile EXCEPT ![a] = remoteVer[a]]
             /\ log' = Logged("downloaded")
             /\ pc' = "dl_md5"
             /\ UNCHANGED <<idx, consecutive_failures, faults>>
    /\ outcomes' = Recorded
    /\ UNCHANGED <<ledger, compound_data, md5File, sdfFile, fsInit, remoteVer, today,
                   call, plan, runs>>
    /\ UNCHANGED <<searchVars, auxVars>>

\* lines 120-126: download the companion checksum file
DownloadMd5 ==
    /\ pc = "dl_md5"
    /\ LET a == plan[idx]
       IN \/ /\ CanFail
             /\ faults' = faults + 1
             /\ md5File' = [md5File EXCEPT ![a] = "none"]
             /\ log' = Logged("md5_fail")
             /\ Continue(consecutive_failures + 1)
          \/ /\ md5File' = [md5File EXCEPT ![a] = Md5Of(remoteVer[a])]
             /\ log' = Logged("md5_fetched")
             /\ pc' = "verify"
             /\ UNCHANGED <<idx, consecutive_failures, faults>>
    /\ outcomes' = Recorded
    /\ UNCHANGED <<ledger, compound_data, gzFile, sdfFile, fsInit, remoteVer, today,
                   call, plan, runs>>
    /\ UNCHANGED <<searchVars, auxVars>>

\* lines 128-139: verify the checksum; a bad one removes both local files
\* an unlink that leaves the file in place
UnlinkSkipped(files, a) == files

\* lines 134-136: Path.unlink(missing_ok=True)
Unlink(files, a) == [files EXCEPT ![a] = "none"]

VerifyChecksum ==
    /\ pc = "verify"
    /\ LET a == plan[idx]
       IN \/ \* verify_md5 raises
             /\ CanFail
             /\ faults' = faults + 1
             /\ log' = Logged("raised")
             /\ HandleException(a)
             /\ UNCHANGED <<gzFile, md5File>>
          \/ /\ ~verify_md5(gzFile[a], md5File[a])
             /\ gzFile' = Unlink(gzFile, a)
             /\ md5File' = Unlink(md5File, a)
             /\ log' = Logged("bad_checksum")
             /\ Continue(consecutive_failures + 1)
             /\ UNCHANGED <<ledger, faults>>
          \/ /\ verify_md5(gzFile[a], md5File[a])
             /\ log' = Logged("verified")
             /\ pc' = "unpack"
             /\ UNCHANGED <<ledger, gzFile, md5File, idx, consecutive_failures, faults>>
    /\ outcomes' = Recorded
    /\ UNCHANGED <<compound_data, sdfFile, fsInit, remoteVer, today, call, plan, runs>>
    /\ UNCHANGED <<searchVars, auxVars>>

\* db_utils.py save_to_database: INSERT OR IGNORE by CID
save_to_database(cd, a, ver) ==
    IF cd[a] = "none" THEN [cd EXCEPT ![a] = ver] ELSE cd

\* a success branch that leaves the stored MD5 as it was
MarkIngestedKeepingMd5(a) ==
    /\ ledger' = upsert_archive_state(ledger, a, "ingested", SourceOf(a),
                                      "keep", today, "none")
    /\ Continue(0)

\* lines 152-164: success branch of the loop body
MarkIngested(a) ==
    /\ ledger' = upsert_archive_state(ledger, a, "ingested", SourceOf(a),
                                      read_expected_md5(md5File[a]), today, "none")
    /\ Continue(0)

\* lines 165-174: failure branch of the loop body
MarkProcessingFailed(a) ==
    /\ ledger' = upsert_archive_state(ledger, a, "failed", SourceOf(a),
                                      "keep", -1, "processing failed")
    /\ BreakOrContinue(consecutive_failures + 1)

\* lines 141-174: unpack_and_process_file, then the ledger upsert
UnpackAndProcess ==
    /\ pc = "unpack"
    /\ LET a == plan[idx]
       IN \/ \* unpacked, records saved, both intermediate files cleaned up
             /\ compound_data' = save_to_database(compound_data, a, gzFile[a])
             /\ gzFile' = [gzFile EXCEPT ![a] = "none"]
             /\ sdfFile' = [sdfFile EXCEPT ![a] = FALSE]
             /\ log' = [log EXCEPT !.steps = @ \o <<"unpacked", "callback", "ingested">>]
             /\ MarkIngested(a)
             /\ UNCHANGED faults
          \/ \* save_to_database logs the sqlite3.Error and returns normally
             /\ CanFail
             /\ faults' = faults + 1
             /\ gzFile' = [gzFile EXCEPT ![a] = "none"]
             /\ sdfFile' = [sdfFile EXCEPT ![a] = FALSE]
             /\ log' = [log EXCEPT !.steps = @ \o <<"unpacked", "callback", "ingested">>]
             /\ MarkIngested(a)
             /\ UNCHANGED compound_data
          \/ \* validate_gz_file / unpack_gz_file raised: returns False
             /\ CanFail
             /\ faults' = faults + 1
             /\ log' = Logged("proc_fail")
             /\ MarkProcessingFailed(a)
             /\ UNCHANGED <<compound_data, gzFile, sdfFile>>
          \/ \* process_file or the callback raised after the unpack: returns False
             /\ CanFail
             /\ faults' = faults + 1
             /\ sdfFile' = [sdfFile EXCEPT ![a] = TRUE]
             /\ log' = [log EXCEPT !.steps = @ \o <<"unpacked", "proc_fail">>]
             /\ MarkProcessingFailed(a)
             /\ UNCHANGED <<compound_data, gzFile>>
    /\ outcomes' = Recorded
    /\ UNCHANGED <<md5File, fsInit, remoteVer, today, call, plan, runs>>
    /\ UNCHANGED <<searchVars, auxVars>>

\* the environment between runs: a day passes
Tick ==
    /\ pc = "idle"
    /\ runs >= 1
    /\ runs < MaxRuns
    /\ today <= runs
    /\ today' = today + 1
    /\ UNCHANGED <<ledger, compound_data, gzFile, md5File, sdfFile, fsInit, remoteVer,
                   pc, call, plan, idx, consecutive_failures, runs, faults, log, outcomes>>
    /\ UNCHANGED <<searchVars, auxVars>>

\* the environment between runs: an ingested monthly archive is republished
\* upstream with a new body
RemoteUpdate ==
    /\ pc = "idle"
    /\ runs < MaxRuns
    /\ \E a \in MonthlyArchives :
         /\ ledger[a].status = "ingested"
         /\ remoteVer[a] = "v1"
         /\ remoteVer' = [remoteVer EXCEPT ![a] = "v2"]
    /\ UNCHANGED <<ledger, compound_data, gzFile, md5File, sdfFile, fsInit, today,
                   pc, call, plan, idx, consecutive_failures, runs, faults, log, outcomes>>
    /\ UNCHANGED <<searchVars, auxVars>>

NextIngest ==
    \/ StartRun
    \/ BeginArchive
    \/ DownloadArchive
    \/ DownloadMd5
    \/ VerifyChecksum
    \/ UnpackAndProcess
    \/ Tick
    \/ RemoteUpdate

InitIngest ==
    /\ \E seeded \in BOOLEAN : IngestInit(seeded)
    /\ InitSearchVars
    /\ LookupAtRest
    /\ DownloadAtRest
    /\ NothingApplied
    /\ WorkersAtRest

SpecIngest == InitIngest /\ [][NextIngest]_vars

(***************************************************************************)
(* Runs that can be cut short: the process is killed inside the loop body  *)
(***************************************************************************)
IngestingAt == {"dl_gz", "dl_md5", "verify", "unpack"}

\* the process dies while an archive is in work. Nothing is written to the
\* ledger; inside unpack_and_process_file the archive may already be unpacked
\* and save_to_database may already have committed its rows
Interrupt ==
    /\ pc \in IngestingAt
    /\ LET a == plan[idx]
       IN \E unpacked \in BOOLEAN, saved \in BOOLEAN :
            /\ unpacked => pc = "unpack"
            /\ saved => unpacked
            /\ sdfFile' = IF unpacked THEN [sdfFile EXCEPT ![a] = TRUE] ELSE sdfFile
            /\ compound_data' = IF saved
                                THEN save_to_database(compound_data, a, gzFile[a])
                                ELSE compound_data
    /\ log' = Logged("interrupted")
    /\ pc' = "idle"
    /\ UNCHANGED <<ledger, gzFile, md5File, fsInit, remoteVer, today, call, plan, idx,
                   consecutive_failures, runs, faults>>
    /\ outcomes' = Recorded
    /\ UNCHANGED <<searchVars, auxVars>>

NextCrash ==
    \/ NextIngest
    \/ Interrupt

SpecCrash == InitIngest /\ [][NextCrash]_vars

(***************************************************************************)
(* Planning alone: update_database called on a ledger left by earlier runs *)
(***************************************************************************)
\* the rows earlier runs can leave for an archive: never seen, ingested on day
\* 1 or 2, failed before any ingest, failed on a re-ingest after day 2
PlanRows ==
    {NoRow}
    \cup {[status |-> "ingested", md5 |-> "h1", last_error |-> "none",
           last_ingested |-> d, source |-> "full"] : d \in 1..2}
    \cup {[status |-> "failed", md5 |-> "none", last_error |-> "processing failed",
           last_ingested |-> d, source |-> "full"] : d \in {0, 2}}

InitPlan ==
    /\ ledger \in [Archives -> PlanRows]
    /\ compound_data = [a \in Archives |->
                          IF ledger[a].status = "ingested" THEN "v1" ELSE "none"]
    /\ md5File = [a \in Archives |-> "none"]
    /\ fsInit = TRUE
    /\ gzFile = [a \in Archives |-> "none"]
    /\ sdfFile = [a \in Archives |-> FALSE]
    /\ remoteVer = [a \in Archives |-> "v1"]
    /\ today = 3
    /\ pc = "idle"
    /\ call = NoCall
    /\ plan = <<>>
    /\ idx = 1
    /\ consecutive_failures = 0
    /\ runs = 0
    /\ faults = 0
    /\ log = NoLog
    /\ outcomes = <<>>
    /\ InitSearchVars
    /\ LookupAtRest
    /\ DownloadAtRest
    /\ NothingApplied
    /\ WorkersAtRest

NextPlan == StartRun

SpecPlan == InitPlan /\ [][NextPlan]_vars

(***************************************************************************)
(* Identifiers (molid/utils/identifiers.py)                                *)
(***************************************************************************)
Compounds == 1..NCompounds

\* The InChIKey of compound c: the 14-character connectivity block, then the
\* rest.  Compounds 2k-1 and 2k share their connectivity block.
KeyOf(c) == <<"key", (c + 1) \div 2, c>>

\* id_value[:14]: the connectivity block of a key, a shorter value unchanged
Prefix14(v) == IF v[1] = "key" THEN <<"key14", v[2]>> ELSE v

\* the identifier types a caller may pass; "InChIKey" is a mixed-case spelling
IdTypes == {"inchikey", "InChIKey", "cid", "isomericsmiles", "cas", "name"}

\* the value a caller passes for compound c under the given (lowercased) type
RawValue(k, c) ==
    CASE k = "inchikey" -> KeyOf(c)
      [] k = "isomericsmiles" -> <<"smiles", c>>
      [] OTHER -> <<k, c>>

\* the element symbols (each with its count) of the formulas written here,
\* and their place in the standard ordering: carbon, hydrogen, then the rest
\* alphabetically
ElementTokens == {"C2", "H6", "O"}
HillRank(e) == CASE e = "C2" -> 1 [] e = "H6" -> 2 [] OTHER -> 3

\* every way of writing the element symbols one after another
FormulaOrders ==
    {o \in [1..Cardinality(ElementTokens) -> ElementTokens] :
       \A i, j \in DOMAIN o : i # j => o[i] # o[j]}

\* a formula string of compound c: its element symbols in the order written
FormulaString(order, c) == <<"formula">> \o order \o <<c>>

\* canonicalize_formula: the same element symbols in the standard ordering
canonicalize_formula(v) ==
    LET els == {v[i] : i \in 2..(Len(v) - 1)}
        sorted == [i \in 1..Cardinality(els) |->
                     CHOOSE e \in els :
                       Cardinality({d \in els : HillRank(d) < HillRank(e)}) = i - 1]
    IN <<v[1]>> \o sorted \o <<v[Len(v)]>>

\* any(ch.isupper() for ch in v)
HasUpper(v) == \E i \in 2..(Len(v) - 1) : v[i] \in ElementTokens

\* str.lower() on the identifier type
Lower(t) == IF t = "InChIKey" THEN "inchikey" ELSE t

BASIC_ALLOWED == {"cid", "title", "iupacname", "molecularformula", "inchi",
                  "inchikey", "smiles", "canonicalsmiles", "cas"}
ADV_ALLOWED == BASIC_ALLOWED \cup {"isomericsmiles"}

\* RDKit: structure notation -> InChIKey
convert_to_inchikey(v) == KeyOf(v[2])

Raise(exc) == [kind |-> "raise", exc |-> exc, records |-> <<>>, source |-> "none"]
Records(recs, source) == [kind |-> "records", exc |-> "none", records |-> recs,
                          source |-> source]

\* the shape of what a caller passes as the query: a mapping or not, and how
\* many identifier/value pairs it holds
QueryShapes == [mapping : BOOLEAN, keys : 0..MaxKeys]

\* not isinstance(query, dict) or len(query) != 1
Malformed(q) == "shape" \in DOMAIN q /\ (~q.shape.mapping \/ q.shape.keys # 1)

\* normalize_query: (id_type, id_value), or the exception it raises
normalize_query(q, mode) ==
    LET k == Lower(q.type)
        v == IF k = "molecularformula" THEN q.value ELSE RawValue(k, q.c)
        allowed == IF mode = "basic" THEN BASIC_ALLOWED ELSE ADV_ALLOWED
    IN IF Malformed(q)
       THEN [ok |-> FALSE, exc |-> "ValueError", type |-> "none", value |-> <<>>]
       ELSE IF k \notin allowed
       THEN [ok |-> FALSE, exc |-> "UnsupportedIdentifierForMode", type |-> k, value |-> v]
       ELSE IF k = "molecularformula" /\ ~HasUpper(v)
       THEN [ok |-> FALSE, exc |-> "ValueError", type |-> k, value |-> v]
       ELSE IF k \in {"smiles", "canonicalsmiles", "isomericsmiles", "inchi"}
       THEN [ok |-> TRUE, exc |-> "none", type |-> "inchikey",
             value |-> convert_to_inchikey(v)]
       ELSE [ok |-> TRUE, exc |-> "none", type |-> k, value |-> v]

(***************************************************************************)
(* The remote service (molid/pubchemproc/fetch.py)                         *)
(***************************************************************************)
\* what the service may answer for compound c (0: a compound it does not know)
RemoteResponses(c) ==
    IF c \in Compounds THEN {"found", "found_no_xref", "transport_error"}
    ELSE {"empty", "http_404"}

\* fetch_molecule_data: the property records, or the exception raised
fetch_molecule_data(id_type, id_value, resp) ==
    LET c == id_value[Len(id_value)]
    IN CASE resp = "transport_error" -> Raise("ConnectionError")
         [] resp = "http_404" -> Raise("HTTPError")
         [] resp = "empty" -> Records(<<>>, "none")
         [] resp = "found" -> Records(<<[cid |-> c, cas |-> c]>>, "none")
         [] OTHER -> Records(<<[cid |-> c, cas |-> IF id_type = "cas" THEN c ELSE 0]>>,
                             "none")

(***************************************************************************)
(* Store lookups (molid/search/db_lookup.py, molid/pubchemproc/cache.py)   *)
(***************************************************************************)
\* the identifier types advanced_search maps to a column of cached_molecules
CACHE_FIELDS == {"cid", "inchikey", "inchikey14", "molecularformula", "inchi", "tpsa",
                 "charge", "canonicalsmiLES", "isomericsmiles", "title", "iupacname",
                 "xlogp", "exactmass", "complexity", "monoisotopicmass"}

\* the value a stored row holds in the column of the given identifier type
ColumnValue(row, id_type) ==
    CASE id_type = "inchikey" -> KeyOf(row.cid)
      [] id_type = "inchikey14" -> Prefix14(KeyOf(row.cid))
      [] id_type = "molecularformula" ->
           \* MolecularFormula as the remote service reports it
           FormulaString(<<"C2", "H6", "O">>, row.cid)
      [] OTHER -> <<id_type, row.cid>>

\* the rows of a result set, in CID order
RowsOf(rows) == LET cids == SortedSeq({r.cid : r \in rows})
                IN [i \in 1..Len(cids) |-> CHOOSE r \in rows : r.cid = cids[i]]

\* what opening a store handle may raise
StoreFaults == {"none", "FileNotFoundError", "PermissionError", "DatabaseNotFound",
                "OperationalError"}

\* advanced_search: [] when the file is missing, ValueError for an unmapped
\* type, the handle's exception, otherwise the matching rows (None when there
\* are none)
advanced_search(fileExists, rows, id_type, id_value, fault) ==
    IF ~fileExists THEN Records(<<>>, "none")
    ELSE IF id_type \notin CACHE_FIELDS THEN Raise("ValueError")
    ELSE IF fault # "none" THEN Raise(fault)
    ELSE Records(RowsOf({r \in rows : ColumnValue(r, id_type) = id_value}), "none")

\* writes that replace the row of a CID already stored
insert_or_replace_records(rows, recs) ==
    {r \in rows : \A j \in 1..Len(recs) : recs[j].cid # r.cid}
    \cup {recs[j] : j \in 1..Len(recs)}

\* store_cached_data's writes: INSERT OR IGNORE keyed by CID
insert_dict_records(rows, recs) ==
    rows \cup {recs[i] : i \in {j \in 1..Len(recs) :
                                  \A r \in rows : r.cid # recs[j].cid}}

\* store_cached_data: the rows after the write, and the re-read records
store_cached_data(rows, id_type, id_value, api_data) ==
    LET data == [i \in 1..Len(api_data) |->
                   IF id_type = "cas" /\ api_data[i].cas = 0
                   THEN [api_data[i] EXCEPT !.cas = id_value[2]] ELSE api_data[i]]
        inserted == insert_dict_records(rows, data)
        updated == IF id_type = "cas"
                   THEN {IF \E i \in 1..Len(data) : data[i].cid = r.cid
                         THEN [r EXCEPT !.cas = id_value[2]] ELSE r : r \in inserted}
                   ELSE inserted
        cached == advanced_search(TRUE, updated, id_type, id_value, "none")
    IN [rows |-> updated,
        out |-> IF cached.records = <<>> /\ id_type = "molecularformula"
                THEN advanced_search(TRUE, updated, "molecularformula",
                                     canonicalize_formula(id_value), "none")
                ELSE cached]

\* the state a strategy leaves behind, with its outcome
Tier(out, rows, file, calls) ==
    [out |-> out, cache |-> rows, cacheFile |-> file, calls |-> calls]

\* get_cached_or_fetch: cache first, otherwise fetch, store and re-read
get_cached_or_fetch(rows, calls, id_type, id_value, resp, fault) ==
    LET canon == IF id_type = "molecularformula"
                 THEN advanced_search(TRUE, rows, id_type,
                                      canonicalize_formula(id_value), fault)
                 ELSE Records(<<>>, "none")
        cached == advanced_search(TRUE, rows, id_type, id_value, fault)
        api == fetch_molecule_data(id_type, id_value, resp)
        st == store_cached_data(rows, id_type, id_value, api.records)
    IN IF canon.kind = "raise" THEN Tier(canon, rows, TRUE, calls)
       ELSE IF canon.records # <<>>
       THEN Tier(Records(canon.records, "from_cache"), rows, TRUE, calls)
       ELSE IF cached.kind = "raise" THEN Tier(cached, rows, TRUE, calls)
       ELSE IF cached.records # <<>>
       THEN Tier(Records(cached.records, "from_cache"), rows, TRUE, calls)
       ELSE IF api.kind = "raise" THEN Tier(api, rows, TRUE, calls + 1)
       ELSE Tier(st.out, st.rows, TRUE, calls + 1)

\* the positional arguments SearchService passes to basic_offline_search, and
\* the parameters the function declares
BasicSearchCallArgs == <<"self.master_db", "id_type", "id_value">>
BasicSearchParams == <<"offline_db_file", "id_value">>

\* the row query_one returns when nothing matches
NoneRow == [cid |-> 0, cas |-> 0]

\* compound_data as create_offline_db lays it out has no InChIKey14 column
\* (only an index on substr(InChIKey, 1, 14))
MasterKey14Column == FALSE

\* SELECT * FROM compound_data WHERE InChIKey14 = ?: the first matching row,
\* None when there is none, an SQL error when the table has no such column
SelectByKey14(rows, key14col, id_value) ==
    LET pre == {r \in rows : ColumnValue(r, "inchikey14") = Prefix14(id_value)}
    IN IF ~key14col THEN Raise("OperationalError")
       ELSE Records(<<IF pre # {} THEN RowsOf(pre)[1] ELSE NoneRow>>, "none")

\* a lookup that asks for the connectivity block before the full Key
basic_offline_search_prefix_first(state, rows, key14col, id_value) ==
    LET byPrefix == SelectByKey14(rows, key14col, id_value)
        exact == {r \in rows : ColumnValue(r, "inchikey") = id_value}
    IN IF state = "missing" THEN Records(<<>>, "none")
       ELSE IF byPrefix.kind = "records" /\ byPrefix.records # <<NoneRow>> THEN byPrefix
       ELSE IF exact # {} THEN Records(<<RowsOf(exact)[1]>>, "none")
       ELSE byPrefix

\* basic_offline_search: None for a missing file, the exact match, otherwise
\* a one-element list holding whatever the prefix query returned
basic_offline_search(state, rows, key14col, id_value) ==
    LET exact == {r \in rows : ColumnValue(r, "inchikey") = id_value}
    IN IF state = "missing" THEN Records(<<>>, "none")
       ELSE IF exact # {} THEN Records(<<RowsOf(exact)[1]>>, "none")
       ELSE SelectByKey14(rows, key14col, id_value)

\* _search_offline_basic
search_offline_basic(q, state, cids, rows, file, calls) ==
    LET n == normalize_query(q, "basic")
        record == basic_offline_search(state, {[cid |-> c, cas |-> 0] : c \in cids},
                                       MasterKey14Column, n.value)
    IN IF ~n.ok THEN Tier(Raise(n.exc), rows, file, calls)
       ELSE IF Len(BasicSearchCallArgs) # Len(BasicSearchParams)
       THEN Tier(Raise("TypeError"), rows, file, calls)
       ELSE IF record.kind = "raise" THEN Tier(record, rows, file, calls)
       ELSE IF record.records = <<>>
       THEN Tier(Raise("MoleculeNotFound"), rows, file, calls)
       ELSE Tier(Records(record.records, "master"), rows, file, calls)

\* a strategy that hands the formula on exactly as it was written
AsWritten(n) == n.value

\* if id_type == "molecularformula": id_value = canonicalize_formula(id_value)
Canonical(n) == IF n.ok /\ n.type = "molecularformula"
                THEN canonicalize_formula(n.value) ELSE n.value

\* _search_offline_advanced
search_offline_advanced(q, rows, file, calls, fault) ==
    LET n == normalize_query(q, "advanced")
        results == advanced_search(file, rows, n.type, Canonical(n), fault)
    IN IF ~n.ok THEN Tier(Raise(n.exc), rows, file, calls)
       ELSE IF results.kind = "raise" THEN Tier(results, rows, file, calls)
       ELSE IF results.records = <<>>
       THEN Tier(Raise("MoleculeNotFound"), rows, file, calls)
       ELSE Tier(Records(results.records, "cache"), rows, file, calls)

\* an online search that goes through the cache
search_online_through_cache(q, rows, file, calls, resp) ==
    LET n == normalize_query(q, "advanced")
        r == get_cached_or_fetch(rows, calls, n.type, Canonical(n), resp, "none")
    IN IF ~n.ok THEN Tier(Raise(n.exc), rows, file, calls)
       ELSE IF r.out.kind = "raise" THEN r
       ELSE IF r.out.records = <<>> THEN [r EXCEPT !.out = Raise("MoleculeNotFound")]
       ELSE [r EXCEPT !.out.source = "API"]

\* _search_online_only
search_online_only(q, rows, file, calls, resp) ==
    LET n == normalize_query(q, "advanced")
        data == fetch_molecule_data(n.type, Canonical(n), resp)
    IN IF ~n.ok THEN Tier(Raise(n.exc), rows, file, calls)
       ELSE IF data.kind = "raise" THEN Tier(data, rows, file, calls + 1)
       ELSE IF data.records = <<>>
       THEN Tier(Raise("MoleculeNotFound"), rows, file, calls + 1)
       ELSE Tier(Records(data.records, "API"), rows, file, calls + 1)

\* _search_online_cached
search_online_cached(q, dirOk, rows, file, calls, resp, fault) ==
    LET n == normalize_query(q, "advanced")
        r == get_cached_or_fetch(rows, calls, n.type, Canonical(n), resp, fault)
    IN IF ~dirOk THEN Tier(Raise("OperationalError"), rows, file, calls)
       ELSE IF ~n.ok THEN Tier(Raise(n.exc), rows, TRUE, calls)
       ELSE IF r.out.kind = "raise" THEN r
       ELSE IF r.out.records = <<>>
       THEN [r EXCEPT !.out = Raise("MoleculeNotFound")]
       ELSE [r EXCEPT !.out.source = IF @ = "from_cache" THEN "cache" ELSE "API"]

(***************************************************************************)
(* SearchService.search, auto mode (molid/search/service.py)               *)
(***************************************************************************)
DefaultPriority == <<"offline-basic", "online-cached", "online-only">>

\* the priority lists a deployment may configure (<<>>: none configured)
AutoPriorityChoices == {<<>>, <<"offline-advanced", "online-only", "online-cached",
                                "offline-basic">>}

\* a service that ignores the configured list
AutoPriorityIgnored(configured) == DefaultPriority

\* cfg.auto_priority or the default
AutoPriority(configured) == IF configured = <<>> THEN DefaultPriority ELSE configured

has_readable_file(state) == state = "ok"
is_writable_dir(dirOk) == dirOk

\* the availability gates in front of a tier
Gate(tier, masterState, file, dirOk) ==
    CASE tier \in {"offline-basic", "offline-advanced"} ->
           /\ has_readable_file(masterState)
           /\ tier = "offline-advanced" => file
      [] tier = "online-cached" -> is_writable_dir(dirOk)
      [] OTHER -> TRUE

\* self._dispatch[tier](query_lc)
Dispatch(tier, q, resp, fault) ==
    CASE tier = "offline-basic" ->
           search_offline_basic(q, master, masterCids, cache, cacheFile, remoteCalls)
      [] tier = "offline-advanced" ->
           search_offline_advanced(q, cache, cacheFile, remoteCalls, fault)
      [] tier = "online-only" ->
           search_online_only(q, cache, cacheFile, remoteCalls, resp)
      [] OTHER ->
           search_online_cached(q, cacheDir, cache, cacheFile, remoteCalls, resp, fault)

\* a loop that does not absorb permission errors
FallsThroughButPermission(exc) ==
    exc \in {"UnsupportedIdentifierForMode", "MoleculeNotFound", "DatabaseNotFound",
             "FileNotFoundError"}

\* the exceptions the auto loop absorbs
FallsThrough(exc) ==
    exc \in {"UnsupportedIdentifierForMode", "MoleculeNotFound", "DatabaseNotFound",
             "FileNotFoundError", "PermissionError"}

\* what one tier did: its outcome, how many records, how many remote calls
Attempt(tier, kind, exc, n, calls) ==
    [tier |-> tier, kind |-> kind, exc |-> exc, n |-> n, calls |-> calls]

\* search() is called with a one-key query in auto mode
StartSearch ==
    /\ spc = "idle"
    /\ searches < MaxSearches
    /\ \E t \in IdTypes, c \in 0..NCompounds, p \in AutoPriorityChoices :
         query' = [type |-> t, c |-> c, priority |-> p, mode |-> "auto"]
    /\ spc' = "auto"
    /\ tierIdx' = 1
    /\ tried' = <<>>
    /\ result' = NoResult
    /\ searches' = searches + 1
    /\ UNCHANGED <<master, masterCids, cacheDir, cacheFile, cache, remoteCalls>>
    /\ UNCHANGED <<ingestVars, auxVars>>

\* `continue`: on to the next tier, or MoleculeNotFound once the list is exhausted
NextTier ==
    /\ tierIdx' = tierIdx + 1
    /\ IF tierIdx + 1 > Len(AutoPriority(query.priority))
       THEN /\ spc' = "idle"
            /\ result' = [NoResult EXCEPT !.kind = "raise", !.exc = "MoleculeNotFound"]
       ELSE /\ spc' = "auto"
            /\ result' = result

\* one iteration of the loop over the priority list
TryTier ==
    /\ spc = "auto"
    /\ tierIdx <= Len(AutoPriority(query.priority))
    /\ LET tier == AutoPriority(query.priority)[tierIdx]
           q == [query EXCEPT !.type = Lower(@)]
       IN \/ /\ ~Gate(tier, master, cacheFile, cacheDir)
             /\ tried' = Append(tried, Attempt(tier, "skipped", "none", 0, 0))
             /\ NextTier
             /\ UNCHANGED <<cacheFile, cache, remoteCalls>>
          \/ /\ Gate(tier, master, cacheFile, cacheDir)
             /\ \E resp \in RemoteResponses(query.c), fault \in StoreFaults :
                  LET r == Dispatch(tier, q, resp, fault)
                  IN /\ cache' = r.cache
                     /\ cacheFile' = r.cacheFile
                     /\ remoteCalls' = r.calls
                     /\ tried' = Append(tried, Attempt(tier, r.out.kind, r.out.exc,
                                                       Len(r.out.records),
                                                       r.calls - remoteCalls))
                     /\ IF r.out.kind = "raise" /\ FallsThrough(r.out.exc)
                        THEN NextTier
                        ELSE IF r.out.kind = "raise"
                        THEN /\ spc' = "idle"
                             /\ tierIdx' = tierIdx
                             /\ result' = [NoResult EXCEPT !.kind = "raise",
                                                           !.exc = r.out.exc,
                                                           !.tier = tier]
                        ELSE IF r.out.records = <<>>
                        THEN NextTier
                        ELSE /\ spc' = "idle"
                             /\ tierIdx' = tierIdx
                             /\ result' = [kind |-> "ok", exc |-> "none",
                                           records |-> r.out.records,
                                           source |-> r.out.source, tier |-> tier]
    /\ UNCHANGED <<master, masterCids, cacheDir, query, searches>>
    /\ UNCHANGED <<ingestVars, auxVars>>

NextSearch ==
    \/ StartSearch
    \/ TryTier

\* any deployment: the bulk store missing, unreadable or present, the cache
\* directory writable or not, with or without an earlier cache
InitSearch ==
    /\ IngestInit(FALSE)
    /\ master \in {"missing", "unreadable", "ok"}
    /\ masterCids \in {{}, {1}}
    /\ master # "ok" => masterCids = {}
    /\ cacheDir \in BOOLEAN
    /\ cacheFile \in BOOLEAN
    /\ ~cacheDir => ~cacheFile
    /\ cache = {}
    /\ remoteCalls = 0
    /\ spc = "idle"
    /\ query = NoQuery
    /\ tierIdx = 1
    /\ tried = <<>>
    /\ result = NoResult
    /\ searches = 0
    /\ LookupAtRest
    /\ DownloadAtRest
    /\ NothingApplied
    /\ WorkersAtRest

SpecSearch == InitSearch /\ [][NextSearch]_vars

(***************************************************************************)
(* SearchService in a direct mode (molid/search/service.py)                *)
(***************************************************************************)
DirectModes == {"offline-basic", "offline-advanced", "online-only", "online-cached"}

\* _ensure_required_files: the exception __init__ raises, "none" when it passes
ensure_required_files(mode, masterState, file) ==
    IF mode = "offline-basic" /\ masterState = "missing" THEN "DatabaseNotFound"
    ELSE IF mode = "offline-advanced" /\ ~file THEN "DatabaseNotFound"
    ELSE "none"

\* what a finished call hands back to the caller
Returned(out, tier) ==
    IF out.kind = "raise"
    THEN [NoResult EXCEPT !.kind = "raise", !.exc = out.exc, !.tier = tier]
    ELSE [kind |-> "ok", exc |-> "none", records |-> out.records,
          source |-> out.source, tier |-> tier]

\* SearchService(master_db, cache_db, SearchConfig(mode)) for a direct mode
StartDirect ==
    /\ spc = "idle"
    /\ searches < MaxSearches
    /\ \E mode \in DirectModes, t \in IdTypes, c \in 0..NCompounds :
         LET exc == ensure_required_files(mode, master, cacheFile)
         IN /\ query' = [type |-> t, c |-> c, priority |-> <<>>, mode |-> mode]
            /\ IF exc # "none"
               THEN /\ result' = Returned(Raise(exc), mode)
                    /\ spc' = "idle"
                    /\ cacheFile' = cacheFile
               ELSE IF mode = "online-cached" /\ ~cacheFile /\ ~is_writable_dir(cacheDir)
               THEN \* create_cache_db cannot create the file
                    /\ result' = Returned(Raise("OperationalError"), mode)
                    /\ spc' = "idle"
                    /\ cacheFile' = cacheFile
               ELSE /\ result' = NoResult
                    /\ spc' = "direct"
                    /\ cacheFile' = IF mode = "online-cached" THEN TRUE ELSE cacheFile
    /\ tierIdx' = 1
    /\ tried' = <<>>
    /\ searches' = searches + 1
    /\ UNCHANGED <<master, masterCids, cacheDir, cache, remoteCalls>>
    /\ UNCHANGED <<ingestVars, auxVars>>

\* search(query) in a direct mode: return self._dispatch[mode](query_lc)
RunDirect ==
    /\ spc = "direct"
    /\ \E resp \in RemoteResponses(query.c), fault \in StoreFaults :
         LET r == Dispatch(query.mode, [query EXCEPT !.type = Lower(@)], resp, fault)
         IN /\ cache' = r.cache
            /\ cacheFile' = r.cacheFile
            /\ remoteCalls' = r.calls
            /\ tried' = <<Attempt(query.mode, r.out.kind, r.out.exc,
                                  Len(r.out.records), r.calls - remoteCalls)>>
            /\ result' = Returned(r.out, query.mode)
    /\ spc' = "idle"
    /\ UNCHANGED <<master, masterCids, cacheDir, query, tierIdx, searches>>
    /\ UNCHANGED <<ingestVars, auxVars>>

NextDirect ==
    \/ StartDirect
    \/ RunDirect

SpecDirect == InitSearch /\ [][NextDirect]_vars

(***************************************************************************)
(* search() handed something that is not a one-pair mapping                *)
(***************************************************************************)
\* a search that lets every query through to the strategies
accept_any_query(shape) == "none"

\* the input validation at the top of search(): the exception it raises
validate_query(shape) ==
    IF ~shape.mapping THEN "TypeError"
    ELSE IF shape.keys # 1 THEN "ValueError"
    ELSE "none"

\* SearchService(master_db, cache_db, SearchConfig(mode)).search(query) for a
\* query that is not a mapping of one pair
SearchMalformed ==
    /\ spc = "idle"
    /\ searches < MaxSearches
    /\ \E mode \in DirectModes \cup {"auto"}, shape \in QueryShapes :
         LET q == [type |-> "none", c |-> 0, priority |-> <<>>, mode |-> mode,
                   shape |-> shape]
             exc == validate_query(shape)
         IN /\ Malformed(q)
            /\ ensure_required_files(mode, master, cacheFile) = "none"
            /\ mode = "online-cached" => is_writable_dir(cacheDir)
            /\ query' = q
            /\ cacheFile' = IF mode = "online-cached" THEN TRUE ELSE cacheFile
            /\ IF exc # "none"
               THEN /\ result' = Returned(Raise(exc), mode)
                    /\ spc' = "idle"
               ELSE /\ result' = NoResult
                    /\ spc' = IF mode = "auto" THEN "auto" ELSE "direct"
    /\ tierIdx' = 1
    /\ tried' = <<>>
    /\ searches' = searches + 1
    /\ UNCHANGED <<master, masterCids, cacheDir, cache, remoteCalls>>
    /\ UNCHANGED <<ingestVars, auxVars>>

NextValidate ==
    \/ NextSearch
    \/ NextDirect
    \/ SearchMalformed

SpecValidate == InitSearch /\ [][NextValidate]_vars

(***************************************************************************)
(* One compound asked for by two spellings of its formula                  *)
(***************************************************************************)
FormulaQuery(mode, order, c) ==
    [type |-> "molecularformula", c |-> c, value |-> FormulaString(order, c),
     priority |-> <<>>, mode |-> mode]

\* SearchService(..., SearchConfig(mode)).search(query) in a direct mode
DirectSearch(mode, q, resp, fault) ==
    LET exc == ensure_required_files(mode, master, cacheFile)
    IN IF exc # "none" THEN Tier(Raise(exc), cache, cacheFile, remoteCalls)
       ELSE Dispatch(mode, q, resp, fault)

\* the search by the first spelling, the search by the second from the same
\* stores and the same environment, and the cached search by the second once
\* the first has run
ApplyFormulaSearch ==
    /\ applied.fn = "none"
    /\ \E mode \in DirectModes, c \in 0..NCompounds, o1 \in FormulaOrders,
          o2 \in FormulaOrders, fault \in StoreFaults :
         \E resp \in RemoteResponses(c), resp2 \in RemoteResponses(c) :
           LET first == DirectSearch(mode, FormulaQuery(mode, o1, c), resp, fault)
               second == DirectSearch(mode, FormulaQuery(mode, o2, c), resp, fault)
               later == search_online_cached(FormulaQuery(mode, o2, c), cacheDir,
                                             first.cache, first.cacheFile, first.calls,
                                             resp2, "none")
           IN /\ applied' = [fn |-> "search", mode |-> mode,
                             values |-> <<FormulaString(o1, c), FormulaString(o2, c)>>,
                             first |-> first, second |-> second, later |-> later]
              /\ cache' = first.cache
              /\ cacheFile' = first.cacheFile
              /\ remoteCalls' = first.calls
    /\ UNCHANGED <<master, masterCids, cacheDir, spc, query, tierIdx, tried, result,
                   searches>>
    /\ UNCHANGED <<ingestVars, lookupVars, downloadVars, workerVars>>

\* any deployment, with or without rows cached by earlier searches
InitFormula ==
    /\ IngestInit(FALSE)
    /\ master \in {"missing", "ok"}
    /\ masterCids = {}
    /\ cacheDir \in BOOLEAN
    /\ cacheFile \in BOOLEAN
    /\ ~cacheDir => ~cacheFile
    /\ cache \in SUBSET {[cid |-> c, cas |-> 0] : c \in Compounds}
    /\ ~cacheFile => cache = {}
    /\ remoteCalls = 0
    /\ spc = "idle"
    /\ query = NoQuery
    /\ tierIdx = 1
    /\ tried = <<>>
    /\ result = NoResult
    /\ searches = 0
    /\ LookupAtRest
    /\ DownloadAtRest
    /\ NothingApplied
    /\ WorkersAtRest

NextFormula == ApplyFormulaSearch

SpecFormula == InitFormula /\ [][NextFormula]_vars

(***************************************************************************)
(* Bulk-store lookups by Key (molid/search/db_lookup.py,                   *)
(* molid/pubchem_api/offline.py, molid/pubchemproc/query.py)               *)
(***************************************************************************)
\* molid/pubchem_api/offline.py basic_offline_search: the row matching the full
\* Key, else the row matching the prefix, else None
offline_basic_offline_search(state, rows, key14col, molecule_identifier) ==
    LET exact == {r \in rows : ColumnValue(r, "inchikey") = molecule_identifier}
        byPrefix == SelectByKey14(rows, key14col, molecule_identifier)
    IN IF state = "missing" THEN Records(<<>>, "none")
       ELSE IF exact # {} THEN Records(<<RowsOf(exact)[1]>>, "none")
       ELSE IF byPrefix.kind = "raise" THEN byPrefix
       ELSE IF byPrefix.records = <<NoneRow>> THEN Records(<<>>, "none")
       ELSE byPrefix

\* molid/db/search.py query_database: every row whose field equals the value
query_database(rows, key14col, field, value) ==
    IF field = "inchikey14" /\ ~key14col THEN Raise("OperationalError")
    ELSE Records(RowsOf({r \in rows : ColumnValue(r, field) = value}), "none")

\* query_pubchem_database: (inchikey, results, matched_full)
query_pubchem_database(state, rows, key14col, c) ==
    LET inchikey == KeyOf(c)
        full == query_database(rows, key14col, "inchikey", inchikey)
        short == query_database(rows, key14col, "inchikey14", Prefix14(inchikey))
    IN IF state = "missing"
       THEN [out |-> Raise("FileNotFoundError"), matched_full |-> FALSE]
       ELSE IF full.records # <<>> THEN [out |-> full, matched_full |-> TRUE]
       ELSE [out |-> short, matched_full |-> FALSE]

LookupFunctions == {"db_lookup", "offline", "query_pubchem_database"}

\* one lookup of the Key of compound c through one of the three functions
Lookup ==
    /\ lookups < MaxLookups
    /\ \E fn \in LookupFunctions, c \in 0..NCompounds :
         LET rows == {[cid |-> m, cas |-> 0] : m \in lkRows}
             q == query_pubchem_database(lkFile, rows, lkCol, c)
             out == CASE fn = "db_lookup" ->
                            basic_offline_search(lkFile, rows, lkCol, KeyOf(c))
                      [] fn = "offline" ->
                            offline_basic_offline_search(lkFile, rows, lkCol, KeyOf(c))
                      [] OTHER -> q.out
         IN lkOut' = [fn |-> fn, c |-> c, kind |-> out.kind, exc |-> out.exc,
                      records |-> out.records,
                      matched_full |-> (fn = "query_pubchem_database"
                                          /\ q.matched_full)]
    /\ lookups' = lookups + 1
    /\ UNCHANGED <<lkFile, lkRows, lkCol>>
    /\ UNCHANGED <<ingestVars, searchVars, downloadVars, applyVars, workerVars>>

NextLookup == Lookup

\* any bulk store: missing or present, any rows, with or without the
\* InChIKey14 column
InitLookup ==
    /\ IngestInit(FALSE)
    /\ InitSearchVars
    /\ DownloadAtRest
    /\ NothingApplied
    /\ WorkersAtRest
    /\ lkFile \in {"missing", "ok"}
    /\ lkRows \in SUBSET Compounds
    /\ lkFile = "missing" => lkRows = {}
    /\ lkCol \in BOOLEAN
    /\ lkOut = NoLookup
    /\ lookups = 0

SpecLookup == InitLookup /\ [][NextLookup]_vars

(***************************************************************************)
(* download_file_with_resume (molid/utils/ftp_utils.py)                    *)
(***************************************************************************)
\* what a local .gz file can hold: a whole gzip stream, one cut off before its
\* end-of-stream marker, bytes that are no gzip stream, or nothing at all
Streams == {"complete", "truncated", "garbage", "empty"}

\* validate_partial_file: gzip reads the file to its end; a stream that ends
\* early raises EOFError, other bytes raise BadGzipFile, an empty file reads
\* as no data
validate_partial_file(stream) == stream \in {"complete", "empty"}

\* a start position taken from the file's length without looking at the file
resume_from_length(size, valid, ftp_size) ==
    [start |-> IF size = -1 THEN 0 ELSE size, size |-> size]

\* validate_start_position: byte to resume from, and the local file it leaves
\* (an invalid or oversized partial file is deleted)
validate_start_position(size, valid, ftp_size) ==
    IF size = -1 THEN [start |-> 0, size |-> -1]
    ELSE IF ~valid THEN [start |-> 0, size |-> -1]
    ELSE IF size > ftp_size THEN [start |-> 0, size |-> -1]
    ELSE [start |-> size, size |-> size]

\* how ftp.retrbinary can end: it returns, it raises, or the server answers the
\* REST command with a 5xx reply whose text does or does not contain "REST"
Transfers == {"ended", "raised", "rest_refused", "rest_refused_unnamed"}

\* attempt_download: the size of the local file after open() and the transfer,
\* and whether the function returned (True/False) or raised. The file is
\* opened "ab" when start > 0 and "wb" otherwise; an error_perm naming REST
\* restarts the transfer from an emptied file, any other error is re-raised
attempt_download(size, start, ftp_size, how, received, again) ==
    LET opened == IF start > 0 /\ size # -1 THEN size ELSE 0
        fallback == how = "rest_refused" /\ start > 0
        written == IF fallback THEN again ELSE opened + received
    IN [size |-> written,
        raised |-> ~fallback /\ how # "ended",
        ok |-> written = ftp_size]

\* a final clean-up that leaves the file where it is
KeepLeftover(size) == size

\* lines 116-117: unlink the local file if it exists
RemoveLeftover(size) == -1

\* lines 115-118 once the loop is exhausted, otherwise the next iteration
EndOfIteration(size) ==
    IF attempt + 1 >= max_retries
    THEN /\ localSize' = RemoveLeftover(size)
         /\ ret' = "None"
         /\ dpc' = "done"
    ELSE /\ localSize' = size
         /\ ret' = ret
         /\ dpc' = "attempt"

\* line 81-84: the call; the folder may hold a file left by an earlier call
StartDownload ==
    /\ dpc \in {"idle", "done"}
    /\ dpc' = IF max_retries >= 1 THEN "attempt" ELSE "done"
    /\ attempt' = 0
    /\ backoff' = INITIAL_BACKOFF
    /\ ret' = IF max_retries >= 1 THEN "pending" ELSE "None"
    /\ localSize' = IF max_retries >= 1 THEN localSize ELSE RemoveLeftover(localSize)
    /\ \E s \in 1..MaxSize : ftpSize' = s
    /\ UNCHANGED <<ingestVars, searchVars, lookupVars, applyVars, workerVars>>

\* lines 86-113: one iteration of the retry loop
DownloadAttempt ==
    /\ dpc = "attempt"
    /\ attempt < max_retries
    /\ attempt' = attempt + 1
    /\ \/ \* connecting, login, cwd or SIZE raised
          /\ backoff' = backoff * 2
          /\ EndOfIteration(-1)
       \/ \E valid \in BOOLEAN, how \in Transfers,
             received \in 0..(MaxSize + 1), again \in 0..(MaxSize + 1) :
            LET v == validate_start_position(localSize, valid, ftpSize)
                d == attempt_download(v.size, v.start, ftpSize, how, received, again)
            IN /\ v.start + received <= MaxSize + 1
               /\ IF d.raised
                  THEN \* lines 104-113: delete the incomplete file, sleep, double
                       /\ backoff' = backoff * 2
                       /\ EndOfIteration(-1)
                  ELSE IF d.ok
                  THEN \* line 102
                       /\ localSize' = d.size
                       /\ ret' = "local_file_path"
                       /\ dpc' = "done"
                       /\ backoff' = backoff
                  ELSE \* size mismatch: on to the next attempt
                       /\ backoff' = backoff
                       /\ EndOfIteration(d.size)
    /\ UNCHANGED ftpSize
    /\ UNCHANGED <<ingestVars, searchVars, lookupVars, applyVars, workerVars>>

NextDownload ==
    \/ StartDownload
    \/ DownloadAttempt

\* the download folder may hold a file of any size from an interrupted call
InitDownload ==
    /\ IngestInit(FALSE)
    /\ InitSearchVars
    /\ LookupAtRest
    /\ NothingApplied
    /\ WorkersAtRest
    /\ dpc = "idle"
    /\ attempt = 0
    /\ localSize \in -1..(MaxSize + 1)
    /\ ftpSize \in 1..MaxSize
    /\ backoff = 0
    /\ ret = "pending"

\* the loop is sequential code whose blocking calls time out (timeout=600)
\* and whose sleeps are finite: an iteration that can run does run
SpecDownload == InitDownload /\ [][NextDownload]_vars /\ WF_vars(DownloadAttempt)

(***************************************************************************)
(* attempt_download alone, on the files validate_start_position hands it   *)
(***************************************************************************)
ApplyAttemptDownload ==
    /\ applied.fn = "none"
    /\ \E ftp_size \in 1..MaxSize, size \in -1..MaxSize, how \in Transfers,
          received \in 0..(MaxSize + 1), again \in 0..(MaxSize + 1) :
         LET start == IF size = -1 THEN 0 ELSE size
         IN /\ size <= ftp_size
            /\ how \in {"rest_refused", "rest_refused_unnamed"} => start > 0
            /\ applied' = [fn |-> "attempt_download", size |-> size, start |-> start,
                           ftp_size |-> ftp_size, how |-> how, received |-> received,
                           again |-> again,
                           out |-> attempt_download(size, start, ftp_size, how,
                                                    received, again)]
    /\ UNCHANGED <<ingestVars, searchVars, lookupVars, downloadVars, workerVars>>

InitApply ==
    /\ IngestInit(FALSE)
    /\ InitSearchVars
    /\ LookupAtRest
    /\ DownloadAtRest
    /\ NothingApplied
    /\ WorkersAtRest

NextAttempt == ApplyAttemptDownload

SpecAttempt == InitApply /\ [][NextAttempt]_vars

(***************************************************************************)
(* One pass of validate_start_position and attempt_download on any file    *)
(***************************************************************************)
\* the files the download folder may hold (size -1: no file)
LocalFiles ==
    {[size |-> -1, stream |-> "empty"], [size |-> 0, stream |-> "empty"]}
    \cup [size : 1..(MaxSize + 1), stream : Streams \ {"empty"}]

\* lines 96-100 of download_file_with_resume
ApplyResume ==
    /\ applied.fn = "none"
    /\ \E file \in LocalFiles, ftp_size \in 0..MaxSize, how \in Transfers,
          received \in 0..MaxSize, again \in 0..MaxSize :
         LET v == validate_start_position(file.size, validate_partial_file(file.stream),
                                          ftp_size)
         IN /\ how \in {"rest_refused", "rest_refused_unnamed"} => v.start > 0
            /\ how # "rest_refused" => again = 0
            /\ applied' = [fn |-> "resume", file |-> file, ftp_size |-> ftp_size,
                           out |-> v,
                           then |-> attempt_download(v.size, v.start, ftp_size, how,
                                                     received, again)]
    /\ UNCHANGED <<ingestVars, searchVars, lookupVars, downloadVars, workerVars>>

NextResume == ApplyResume

SpecResume == InitApply /\ [][NextResume]_vars

(***************************************************************************)
(* save_to_database on the rows of compound_data (molid/db/db_utils.py)    *)
(***************************************************************************)
\* the Title a compound is reported with; the remote data may be revised
\* between two fetches
RemoteTitles == {"t1", "t2"}

\* the records process_file can hand over, and the rows compound_data can hold
CompoundRecords == [cid : Compounds, title : RemoteTitles]
CompoundStores ==
    {rows \in SUBSET CompoundRecords : \A r1, r2 \in rows : r1.cid = r2.cid => r1 = r2}

\* the column lists the callback passes: list(data[0].keys()), or []
ColumnLists == {<<>>, <<"CID">>, <<"CID", "Title">>}

\* tuple(entry.get(col) for col in columns): a column left out is NULL
Projected(rec, columns) ==
    [cid |-> rec.cid,
     title |-> IF \E i \in 1..Len(columns) : columns[i] = "Title"
               THEN rec.title ELSE "NULL"]

RECURSIVE save_or_replace_records(_, _, _, _)
\* a save by INSERT OR REPLACE
save_or_replace_records(rows, data, columns, fault) ==
    IF data = <<>> \/ columns = <<>> \/ fault THEN rows
    ELSE save_or_replace_records(
           {r \in rows : r.cid # Head(data).cid} \cup {Projected(Head(data), columns)},
           Tail(data), columns, fault)

RECURSIVE save_to_database_records(_, _, _, _)
\* save_to_database: nothing for no data or no columns; otherwise INSERT OR
\* IGNORE of every record in one transaction; an sqlite3.Error is logged and
\* nothing is committed
save_to_database_records(rows, data, columns, fault) ==
    IF data = <<>> \/ columns = <<>> \/ fault THEN rows
    ELSE save_to_database_records(
           IF \E r \in rows : r.cid = Head(data).cid THEN rows
           ELSE rows \cup {Projected(Head(data), columns)},
           Tail(data), columns, fault)

\* the same records are saved twice in a row
ApplySaveToDatabase ==
    /\ applied.fn = "none"
    /\ \E rows \in CompoundStores, columns \in ColumnLists, fault \in BOOLEAN,
          data \in {<<>>} \cup {<<r>> : r \in CompoundRecords}
                   \cup {<<r1, r2>> : r1 \in CompoundRecords, r2 \in CompoundRecords} :
         LET once == save_to_database_records(rows, data, columns, fault)
         IN applied' = [fn |-> "save_to_database", rows |-> rows, data |-> data,
                        columns |-> columns, fault |-> fault, out |-> once,
                        again |-> save_to_database_records(once, data, columns, FALSE)]
    /\ UNCHANGED <<ingestVars, searchVars, lookupVars, downloadVars, workerVars>>

NextSave == ApplySaveToDatabase

SpecSave == InitApply /\ [][NextSave]_vars

(***************************************************************************)
(* Online-cached searches side by side on one cache store                  *)
(* (service.py _search_online_cached, cache.py get_cached_or_fetch)        *)
(***************************************************************************)
\* the identifier types the searches are made with
WorkerTypes == {"inchikey", "cid", "cas"}

\* a fetched property record with the Title of the moment
Titled(recs, t) ==
    [i \in 1..Len(recs) |-> [cid |-> recs[i].cid, cas |-> recs[i].cas, title |-> t]]

\* cache.py:82-90: the search looks in the cache first
WorkerLookup(w) ==
    /\ workers[w].pc = "idle"
    /\ searches < MaxSearches
    /\ searches' = searches + 1
    /\ \E t \in WorkerTypes, c \in Compounds :
         LET n == normalize_query([type |-> t, c |-> c], "advanced")
             cached == advanced_search(TRUE, cache, n.type, n.value, "none")
         IN workers' = [workers EXCEPT ![w] =
                          IF cached.kind = "raise" \/ cached.records # <<>>
                          THEN Resting
                          ELSE [pc |-> "fetch", type |-> n.type, c |-> c, api |-> <<>>]]
    /\ UNCHANGED <<master, masterCids, cacheDir, cacheFile, cache, remoteCalls, spc,
                   query, tierIdx, tried, result>>
    /\ UNCHANGED <<ingestVars, lookupVars, downloadVars, applyVars>>

\* cache.py:92-93: the miss is fetched from the remote service
WorkerFetch(w) ==
    /\ workers[w].pc = "fetch"
    /\ remoteCalls' = remoteCalls + 1
    /\ \E resp \in RemoteResponses(workers[w].c), t \in RemoteTitles :
         LET api == fetch_molecule_data(workers[w].type,
                                        RawValue(workers[w].type, workers[w].c), resp)
         IN workers' = [workers EXCEPT ![w] =
                          IF api.kind = "raise" THEN Resting
                          ELSE [@ EXCEPT !.pc = "store", !.api = Titled(api.records, t)]]
    /\ UNCHANGED <<master, masterCids, cacheDir, cacheFile, cache, spc, query, tierIdx,
                   tried, result, searches>>
    /\ UNCHANGED <<ingestVars, lookupVars, downloadVars, applyVars>>

\* cache.py:94: the fetched records are stored and read back
WorkerStore(w) ==
    /\ workers[w].pc = "store"
    /\ cache' = store_cached_data(cache, workers[w].type,
                                  RawValue(workers[w].type, workers[w].c),
                                  workers[w].api).rows
    /\ workers' = [workers EXCEPT ![w] = Resting]
    /\ UNCHANGED <<master, masterCids, cacheDir, cacheFile, remoteCalls, spc, query,
                   tierIdx, tried, result, searches>>
    /\ UNCHANGED <<ingestVars, lookupVars, downloadVars, applyVars>>

NextWorkers ==
    \E w \in Workers :
       \/ WorkerLookup(w)
       \/ WorkerFetch(w)
       \/ WorkerStore(w)

\* an empty cache store in a writable directory
InitWorkers ==
    /\ IngestInit(FALSE)
    /\ InitSearchVars
    /\ LookupAtRest
    /\ DownloadAtRest
    /\ NothingApplied
    /\ WorkersAtRest

SpecWorkers == InitWorkers /\ [][NextWorkers]_vars

(***************************************************************************)
(* Registry numbers (molid/db/cas_enrich.py, molid/pubchemproc/fetch.py)   *)
(***************************************************************************)
\* the strings a cross-reference list may hold: the digits before the check
\* digit (both hyphenated groups run together) and the check digit; 50-00-0
\* and 64-17-5 as registered, each with a wrong check digit, and a string
\* that is not of the form digits-digits-digit
RegistryNumbers ==
    {[digits |-> <<5, 0, 0, 0>>, check |-> 0], [digits |-> <<5, 0, 0, 0>>, check |-> 1],
     [digits |-> <<6, 4, 1, 7>>, check |-> 5], [digits |-> <<6, 4, 1, 7>>, check |-> 0],
     [digits |-> <<>>, check |-> 0]}

\* re.fullmatch(r"(\d{2,7})-(\d{2})-(\d)", s)
WellFormed(rn) == Len(rn.digits) \in 4..9

\* sum(int(c) * (i+1) for i, c in enumerate(digits)) over the reversed digits
RECURSIVE WeightedSum(_)
WeightedSum(digits) ==
    IF digits = <<>> THEN 0
    ELSE digits[1] * Len(digits) + WeightedSum(Tail(digits))

\* _is_cas_rn
is_cas_rn(rn) == WellFormed(rn) /\ WeightedSum(rn.digits) % 10 = rn.check

\* INSERT OR IGNORE INTO cas_mapping, whose primary key is (CAS, CID)
InsertOrIgnore(table, row) ==
    IF \E r \in table : r.cas = row.cas /\ r.cid = row.cid THEN table
    ELSE table \cup {row}

\* the loop over the cross-references of one CID
RECURSIVE InsertXrefs(_, _, _)
InsertXrefs(table, cid, rns) ==
    IF rns = <<>> THEN table
    ELSE InsertXrefs(InsertOrIgnore(table, [cas |-> Head(rns), cid |-> cid,
                                            source |-> "xref",
                                            confidence |-> IF is_cas_rn(Head(rns))
                                                           THEN 2 ELSE 1]),
                     cid, Tail(rns))

\* the loop over the synonyms of one CID
RECURSIVE InsertSynonyms(_, _, _)
InsertSynonyms(table, cid, syns) ==
    IF syns = <<>> THEN table
    ELSE InsertSynonyms(IF is_cas_rn(Head(syns))
                        THEN InsertOrIgnore(table, [cas |-> Head(syns), cid |-> cid,
                                                    source |-> "synonym",
                                                    confidence |-> 2])
                        ELSE table,
                        cid, Tail(syns))

\* enrich_cas_for_cids for one CID: cas_mapping after the call
enrich_cas_for_cids(table, cid, rns, use_synonyms, syns) ==
    LET xrefs == InsertXrefs(table, cid, rns)
    IN IF use_synonyms THEN InsertSynonyms(xrefs, cid, syns) ELSE xrefs

NoRn == [digits |-> <<>>, check |-> -1]

\* a lookup that attaches the first cross-reference, whatever it is
attach_first_rn(rns) == IF rns = <<>> THEN NoRn ELSE rns[1]

\* fetch_molecule_data: the registry number put into rec["CAS"]
attach_cas(rns) ==
    IF rns = <<>> THEN NoRn
    ELSE IF \E i \in 1..Len(rns) : is_cas_rn(rns[i])
    THEN rns[CHOOSE i \in 1..Len(rns) :
               is_cas_rn(rns[i]) /\ \A j \in 1..(i - 1) : ~is_cas_rn(rns[j])]
    ELSE rns[1]

\* the lists of at most n registry numbers
RnLists(n) == UNION {[1..k -> RegistryNumbers] : k \in 0..n}

\* one compound's cross-references enriched into cas_mapping, on top of what
\* an earlier enrichment left there, and attached to its remote lookup result
ApplyCasEnrich ==
    /\ applied.fn = "none"
    /\ \E cid \in Compounds, rns \in RnLists(MaxRns), earlier \in RnLists(1),
          use_synonyms \in BOOLEAN, syns \in RnLists(1) :
         /\ ~use_synonyms => syns = <<>>
         /\ applied' = [fn |-> "cas", cid |-> cid, rns |-> rns, syns |-> syns,
                        table |-> enrich_cas_for_cids(
                                     enrich_cas_for_cids({}, cid, earlier, FALSE, <<>>),
                                     cid, rns, use_synonyms, syns),
                        attached |-> attach_cas(rns)]
    /\ UNCHANGED <<ingestVars, searchVars, lookupVars, downloadVars, workerVars>>

NextCas == ApplyCasEnrich

SpecCas == InitApply /\ [][NextCas]_vars

(***************************************************************************)
(* enrich_cas_for_cids run again and again over the same cas_mapping       *)
(***************************************************************************)
MaxEnrichRuns == 2        \* calls of enrich_cas_for_cids

\* cas_mapping and the calls made so far
EnrichedSoFar ==
    IF applied.fn = "enrich" THEN applied ELSE [fn |-> "enrich", table |-> {}, runs |-> <<>>]

\* one call of enrich_cas_for_cids for one CID: what _fetch_cas_by_cid and
\* _fetch_synonyms answer this time (either is [] when its request fails)
EnrichRun ==
    /\ applied.fn \in {"none", "enrich"}
    /\ Len(EnrichedSoFar.runs) < MaxEnrichRuns
    /\ \E cid \in Compounds, rns \in RnLists(1), use_synonyms \in BOOLEAN,
          syns \in RnLists(1) :
         /\ ~use_synonyms => syns = <<>>
         /\ applied' = [fn |-> "enrich",
                        table |-> enrich_cas_for_cids(EnrichedSoFar.table, cid, rns,
                                                      use_synonyms, syns),
                        runs |-> Append(EnrichedSoFar.runs,
                                        [cid |-> cid, rns |-> rns, syns |-> syns])]
    /\ UNCHANGED <<ingestVars, searchVars, lookupVars, downloadVars, workerVars>>

NextEnrich == EnrichRun

SpecEnrich == InitApply /\ [][NextEnrich]_vars

(***************************************************************************)
(* The display name of a fetched record (molid/pubchemproc/fetch.py)       *)
(***************************************************************************)
\* how a request to the per-compound view can end: a name in the answer, an
\* answer without one, an HTTP error status, or no answer at all
PugviewAnswers == {"name", "no_name", "http_error", "transport_error"}

\* _fetch_iupac_from_pugview: the heading-filtered request tolerates error
\* statuses and RequestException; the request for the full record calls
\* raise_for_status() outside any try
fetch_iupac_from_pugview(heading, full) ==
    IF heading = "name" THEN [kind |-> "value", exc |-> "none", name |-> "from_view"]
    ELSE CASE full = "transport_error" ->
                [kind |-> "raise", exc |-> "ConnectionError", name |-> ""]
           [] full = "http_error" -> [kind |-> "raise", exc |-> "HTTPError", name |-> ""]
           [] full = "name" -> [kind |-> "value", exc |-> "none", name |-> "from_view"]
           [] OTHER -> [kind |-> "value", exc |-> "none", name |-> ""]

\* the property records the remote may return: IUPACName and Title, either
\* of them possibly empty
PropertyRecords == [cid : Compounds, iupac : {"", "n"}, title : {"", "t"}]

\* fetch_molecule_data, lines 200-206 and 221-230: the record with its
\* IUPACName filled in, or the exception raised
fill_iupac_name(by_cid, rec, heading, full) ==
    LET view == fetch_iupac_from_pugview(heading, full)
    IN IF rec.iupac # "" THEN [kind |-> "ok", exc |-> "none", rec |-> rec]
       ELSE IF view.kind = "raise" THEN [kind |-> "raise", exc |-> view.exc, rec |-> rec]
       ELSE IF view.name # ""
       THEN [kind |-> "ok", exc |-> "none", rec |-> [rec EXCEPT !.iupac = view.name]]
       ELSE IF ~by_cid /\ rec.title # ""
       THEN [kind |-> "ok", exc |-> "none", rec |-> [rec EXCEPT !.iupac = rec.title]]
       ELSE [kind |-> "ok", exc |-> "none", rec |-> rec]

ApplyFillIupacName ==
    /\ applied.fn = "none"
    /\ \E by_cid \in BOOLEAN, rec \in PropertyRecords, heading \in PugviewAnswers,
          full \in PugviewAnswers :
         applied' = [fn |-> "iupac", by_cid |-> by_cid, rec |-> rec,
                     heading |-> heading, full |-> full,
                     out |-> fill_iupac_name(by_cid, rec, heading, full)]
    /\ UNCHANGED <<ingestVars, searchVars, lookupVars, downloadVars, workerVars>>

NextIupac == ApplyFillIupacName

SpecIupac == InitApply /\ [][NextIupac]_vars

(***************************************************************************)
(* Reading an unpacked .sdf file (molid/pubchemproc/pubchem.py)            *)
(***************************************************************************)
MaxLines == 5             \* lines of an .sdf file

\* two of the ten entries of FIELDS_TO_EXTRACT: output field |-> tag name
FIELDS_TO_EXTRACT ==
    [k \in {"CID", "SMILES"} |->
        IF k = "CID" THEN "PUBCHEM_COMPOUND_CID" ELSE "PUBCHEM_SMILES"]

\* the tag a line "> <NAME>" carries (line[3:-1]); COORDINATE_TYPE is a tag
\* of the format that the table does not map
TagOf ==
    [l \in {"> <PUBCHEM_COMPOUND_CID>", "> <PUBCHEM_SMILES>",
             "> <PUBCHEM_COORDINATE_TYPE>"} |->
        CASE l = "> <PUBCHEM_COMPOUND_CID>" -> "PUBCHEM_COMPOUND_CID"
          [] l = "> <PUBCHEM_SMILES>" -> "PUBCHEM_SMILES"
          [] OTHER -> "PUBCHEM_COORDINATE_TYPE"]

\* the lines of a file, stripped: tag lines, a line of text, the empty line
\* and the terminator
SdfLines == DOMAIN TagOf \cup {"text", "", "$$$$"}

MappedTags == {FIELDS_TO_EXTRACT[k] : k \in DOMAIN FIELDS_TO_EXTRACT}

\* the inner loop: the number of lines from position i up to the next empty
\* line or the end of the file
RECURSIVE ValueLength(_, _)
ValueLength(file, i) ==
    IF i > Len(file) \/ file[i] = "" THEN 0 ELSE 1 + ValueLength(file, i + 1)

\* the terminator branch, without the test for an empty compound_data
AppendAlways(data, fields) == Append(data, fields)

\* lines 56-58: at "$$$$" the fields collected so far are emitted, if any
AppendIfAny(data, fields) ==
    IF DOMAIN fields # {} THEN Append(data, fields) ELSE data

\* the outer loop from line i on
RECURSIVE ProcessLines(_, _, _, _)
ProcessLines(file, i, fields, data) ==
    IF i > Len(file) THEN data
    ELSE IF file[i] \in DOMAIN TagOf
    THEN IF TagOf[file[i]] \in MappedTags
         THEN LET n == ValueLength(file, i + 1)
                  key == CHOOSE k \in DOMAIN FIELDS_TO_EXTRACT :
                             FIELDS_TO_EXTRACT[k] = TagOf[file[i]]
                  value == SubSeq(file, i + 1, i + n)
              IN \* the empty line that ends the value is consumed as well
                 ProcessLines(file, i + n + 2,
                              (key :> value) @@ fields, data)
         ELSE ProcessLines(file, i + 1, fields, data)
    ELSE IF file[i] = "$$$$"
    THEN ProcessLines(file, i + 1, [k \in {} |-> <<>>],
                      AppendIfAny(data, fields))
    ELSE ProcessLines(file, i + 1, fields, data)

process_file(file) == ProcessLines(file, 1, [k \in {} |-> <<>>], <<>>)

\* files of the format: the value under a tag line is lines of text up to an
\* empty line; a file may be cut off anywhere
IsSdf(file) ==
    \A i \in 1..Len(file) :
        file[i] \in DOMAIN TagOf =>
            /\ \A j \in (i + 1)..(i + ValueLength(file, i + 1)) : file[j] = "text"
            /\ \/ i + ValueLength(file, i + 1) >= Len(file)
               \/ file[i + ValueLength(file, i + 1) + 1] = ""

SdfFiles ==
    {file \in UNION {[1..n -> SdfLines] : n \in 0..MaxLines} : IsSdf(file)}

ApplyProcessFile ==
    /\ applied.fn = "none"
    /\ \E file \in SdfFiles :
         applied' = [fn |-> "process_file", file |-> file,
                     out |-> process_file(file)]
    /\ UNCHANGED <<ingestVars, searchVars, lookupVars, downloadVars, workerVars>>

NextProcess == ApplyProcessFile

SpecProcess == InitApply /\ [][NextProcess]_vars

(***************************************************************************)
(* The processed_archives table (molid/db/schema.py, molid/db/db_utils.py) *)
(***************************************************************************)
\* an insert that adds a row whether or not the name is already there
AppendRow(table, name, row) == table \cup {[archive_name |-> name, row |-> row]}

\* INSERT ... ON CONFLICT(archive_name) DO UPDATE: archive_name is the
\* primary key
StoreRow(table, name, row) ==
    {r \in table : r.archive_name # name} \cup {[archive_name |-> name, row |-> row]}

\* SELECT * FROM processed_archives WHERE archive_name = ?: the row, None
\* ("absent") when there is none
SelectRow(table, name) ==
    IF \E r \in table : r.archive_name = name
    THEN (CHOOSE r \in table : r.archive_name = name).row
    ELSE NoRow

\* the ledger as get_archive_state reads it off the table
LedgerOf(table) == [a \in Archives |-> SelectRow(table, a)]

\* the table and the calls made so far
LedgerSoFar == IF applied.fn = "none" THEN [table |-> {}, calls |-> <<>>] ELSE applied

\* upsert_archive_state(db, name, status=..., source="full", ...), as
\* update_database calls it: with md5 and timestamp for an ingested archive,
\* with the error text for a failed one; other callers pass any of them
UpsertLedger ==
    /\ applied.fn \in {"none", "ledger"}
    /\ Len(LedgerSoFar.calls) < MaxUpserts
    /\ \E name \in 1..2, status \in {"ingested", "failed"}, md5 \in {"keep", "h1", "h2"} :
         LET row == upsert_archive_state(
                       LedgerOf(LedgerSoFar.table), name, status, "full", md5,
                       IF status = "ingested" THEN 1 ELSE -1,
                       IF status = "ingested" THEN "none" ELSE "processing failed")[name]
         IN applied' = [fn |-> "ledger",
                        table |-> StoreRow(LedgerSoFar.table, name, row),
                        calls |-> Append(LedgerSoFar.calls,
                                         [name |-> name, status |-> status, md5 |-> md5])]
    /\ UNCHANGED <<ingestVars, searchVars, lookupVars, downloadVars, workerVars>>

NextLedger == UpsertLedger

SpecLedger == InitApply /\ [][NextLedger]_vars

(***************************************************************************)
(* Claims about update_database, checked under SpecIngest                  *)
(***************************************************************************)
Last(s) == s[Len(s)]
Steps == log.steps
Did(step) == \E i \in 1..Len(Steps) : Steps[i] = step
Ended(step) == Steps # <<>> /\ Last(Steps) = step
\* the steps named occur in Steps, each after the one before it
RECURSIVE InOrderFrom(_, _)
InOrderFrom(names, from) ==
    IF names = <<>> THEN TRUE
    ELSE \E i \in from..Len(Steps) :
            Steps[i] = Head(names) /\ InOrderFrom(Tail(names), i + 1)

\* C1 (as claimed): no planned archive begins processing while the
\* consecutive-failure counter is at or above MAX_CONSECUTIVE_FAILURES.
\* pc = "loop" is the point where the next planned archive is about to begin.
C1_NoArchiveBeginsAtThreshold ==
    (pc = "loop" /\ idx <= Len(plan)) =>
        consecutive_failures < MAX_CONSECUTIVE_FAILURES

\* C2: after verify_md5 failed for a downloaded archive, that pass has not
\* unpacked it, has handed no record to save_to_database and has not marked it
\* ingested, and both the local archive and the local checksum file are gone.
C2_BadChecksumNeverIngested ==
    Did("bad_checksum") =>
        /\ Ended("bad_checksum")
        /\ ~Did("unpacked") /\ ~Did("callback") /\ ~Did("ingested")
        /\ gzFile[log.a] = "none"
        /\ md5File[log.a] = "none"

C2_Witness ==
    /\ Ended("bad_checksum")
    /\ InOrderFrom(<<"downloaded", "md5_fetched", "bad_checksum">>, 1)

\* C3: an archive met with ledger status 'ingested' whose freshly fetched
\* remote checksum equals the stored md5 is skipped: no archive body is
\* downloaded, compound_data and the ledger are unchanged; otherwise (checksum
\* differs or could not be fetched) the pass goes on to download the body.
C3_SkipUnchangedIngested ==
    [][\A a \in Archives :
        (pc = "loop" /\ idx <= Len(plan) /\ plan[idx] = a
            /\ ledger[a].status = "ingested") =>
        IF md5File'[a] # "none" /\ md5File'[a] = ledger[a].md5
        THEN /\ gzFile' = gzFile
             /\ compound_data' = compound_data
             /\ ledger' = ledger
             /\ pc' # "dl_gz"
             /\ idx' = idx + 1
        ELSE pc' = "dl_gz" /\ idx' = idx]_vars

C3_Witness ==
    /\ Steps = <<"begin", "skip">>
    /\ ledger[log.a].status = "ingested"
    /\ gzFile[log.a] = "none"

\* C4 (as claimed): an archive that failed at any step of the per-archive
\* protocol has its ledger entry at 'failed' with an error text once the run
\* has moved on.
C4_EveryFailureRecorded ==
    (Ended("dl_fail") \/ Ended("md5_fail") \/ Ended("bad_checksum")
        \/ Ended("proc_fail") \/ Ended("raised")) =>
        /\ ledger[log.a].status = "failed"
        /\ ledger[log.a].last_error # "none"

\* C5: a ledger entry is written as 'ingested' only by a pass that downloaded
\* the body, verified it against the companion checksum file, unpacked it and
\* handed the records to the callback, in that order; the entry then holds the
\* checksum of the verified file, the current UTC day and no error text.
C5_IngestedOnlyAfterFullProtocol ==
    [][\A a \in Archives :
        (ledger'[a] # ledger[a] /\ ledger'[a].status = "ingested") =>
            /\ log'.a = a
            /\ InOrderFrom(<<"downloaded", "md5_fetched", "verified", "unpacked",
                             "callback", "ingested">>, 1)'
            /\ ledger'[a].md5 = Md5Of(gzFile[a])
            /\ ledger'[a].md5 # "none"
            /\ ledger'[a].last_ingested = today
            /\ ledger'[a].last_error = "none"]_vars

C5_Witness ==
    /\ Ended("ingested")
    /\ ledger[log.a].status = "ingested"
    /\ ledger[log.a].md5 = "h2"

\* C6 (as claimed): every archive whose ledger entry is 'failed' is part of
\* the plan of the next run.
C6_FailedArchivesPlannedAgain ==
    (pc = "loop" /\ idx = 1 /\ log = NoLog) =>
        \A a \in Archives : ledger[a].status = "failed" => a \in Range(plan)

(***************************************************************************)
(* Claims about SearchService.search in auto mode, checked under           *)
(* SpecSearch                                                              *)
(***************************************************************************)
\* the order the caller configured
ConfiguredOrder ==
    IF query.priority = <<>> THEN <<"offline-basic", "online-cached", "online-only">>
    ELSE query.priority

Absorbed(t) ==
    \/ t.kind = "raise" /\ t.exc \in {"UnsupportedIdentifierForMode", "MoleculeNotFound",
                                      "DatabaseNotFound", "FileNotFoundError",
                                      "PermissionError"}
    \/ t.kind = "records" /\ t.n = 0
Fatal(t) == t.kind = "raise" /\ ~Absorbed(t)
Productive(t) == t.kind = "records" /\ t.n > 0
RaisedNotFound == result.kind = "raise" /\ result.exc = "MoleculeNotFound"

\* C7: in auto mode a tier that raises UnsupportedIdentifierForMode,
\* MoleculeNotFound, DatabaseNotFound, FileNotFoundError or PermissionError, or
\* returns no records, is followed by the next tier of the list (or by
\* MoleculeNotFound when it was the last); a tier that raises anything else is
\* the last one attempted and its exception is what search raises.
C7_AbsorbedFallsThroughOthersAbort ==
    \A i \in 1..Len(tried) :
      /\ (Absorbed(tried[i]) /\ i < Len(ConfiguredOrder)) =>
            \/ Len(tried) > i /\ tried[i + 1].tier = ConfiguredOrder[i + 1]
            \/ Len(tried) = i /\ spc = "auto" /\ tierIdx = i + 1
      /\ (Absorbed(tried[i]) /\ i = Len(ConfiguredOrder)) =>
            spc = "idle" /\ RaisedNotFound
      /\ Fatal(tried[i]) =>
            /\ i = Len(tried)
            /\ spc = "idle"
            /\ result.kind = "raise"
            /\ result.exc = tried[i].exc

\* a permission error was absorbed, the next tier ran and failed hard
C7_Witness ==
    /\ Len(tried) = 2
    /\ tried[1].exc = "PermissionError"
    /\ tried[2].exc = "ConnectionError"
    /\ result.exc = "ConnectionError"
    /\ spc = "idle"

\* C8: auto mode attempts the tiers one at a time in the configured order
\* (default offline-basic, online-cached, online-only); a successful search
\* returns the records of the first tier that yielded any and attempts none
\* after it; when every tier was skipped or yielded nothing the search raises
\* MoleculeNotFound.
C8_PriorityOrderFirstHitWins ==
    /\ Len(tried) <= Len(ConfiguredOrder)
    /\ \A i \in 1..Len(tried) : tried[i].tier = ConfiguredOrder[i]
    /\ spc = "auto" => tierIdx = Len(tried) + 1
    /\ result.kind = "ok" =>
          /\ spc = "idle"
          /\ Len(tried) >= 1
          /\ result.tier = ConfiguredOrder[Len(tried)]
          /\ Productive(tried[Len(tried)])
          /\ Len(result.records) = tried[Len(tried)].n
          /\ \A i \in 1..(Len(tried) - 1) : ~Productive(tried[i])
    /\ (/\ spc = "idle"
        /\ Len(tried) = Len(ConfiguredOrder)
        /\ \A i \in 1..Len(tried) : tried[i].kind = "skipped" \/ Absorbed(tried[i]))
          => RaisedNotFound

\* the default list, where the third tier is the first to yield records
C8_Witness ==
    /\ query.priority = <<>>
    /\ result.kind = "ok"
    /\ result.tier = "online-only"
    /\ Len(tried) = 3
    /\ tried[1].kind = "skipped"
    /\ tried[2].kind = "raise"

\* C9: on success the provenance tag is the name of the tier that produced
\* the records.
C9_ProvenanceNamesTier ==
    result.kind = "ok" => result.source = result.tier

EnvironmentFault(t) ==
    t.kind = "raise" /\ t.exc \in {"ConnectionError", "HTTPError", "PermissionError",
                                   "FileNotFoundError", "DatabaseNotFound",
                                   "OperationalError"}

\* C10: default priority, readable bulk store without the queried Key (exact
\* or 14-character prefix), compound known to the remote service: the finished
\* search was answered by online-cached and the compound is in the cache; the
\* answer came from the remote service with one call, or from the cache with
\* none.
C10_MissFallsToOnlineCached ==
    (/\ spc = "idle"
     /\ searches >= 1
     /\ query.priority = <<>>
     /\ Lower(query.type) = "inchikey"
     /\ query.c \in Compounds
     /\ master = "ok"
     /\ \A c \in masterCids : KeyOf(c)[2] # KeyOf(query.c)[2]
     /\ cacheDir
     /\ \A i \in 1..Len(tried) : ~EnvironmentFault(tried[i]))
    => /\ result.kind = "ok"
       /\ result.tier = "online-cached"
       /\ \E r \in cache : r.cid = query.c
       /\ tried[Len(tried)].calls = IF result.source = "cache" THEN 0 ELSE 1

(***************************************************************************)
(* Claims about the direct modes, checked under SpecDirect                 *)
(***************************************************************************)
\* the identifier of the query is stored in a row of cached_molecules
IdentifierInCache(q, rows) ==
    \E r \in rows :
       IF Lower(q.type) = "cas" THEN r.cas # 0 /\ r.cas = q.c ELSE r.cid = q.c

\* the call ended in a failure of the store or of the remote service
EnvironmentFailure(res) ==
    res.kind = "raise" /\ res.exc \in {"ConnectionError", "HTTPError", "PermissionError",
                                       "FileNotFoundError", "DatabaseNotFound",
                                       "OperationalError"}

\* C11: in online-cached mode a query whose identifier is already in
\* cached_molecules is answered from the cache, with no remote call, and
\* reported as served from cache; on a miss the remote result is in
\* cached_molecules when the call returns and is reported as fetched.
C11_CacheFirstThenFetchAndStore ==
    [][(/\ spc = "direct"
        /\ query.mode = "online-cached"
        /\ Lower(query.type) \in ADV_ALLOWED
        /\ spc' = "idle"
        /\ ~EnvironmentFailure(result'))
       => IF IdentifierInCache(query, cache)
          THEN /\ result'.kind = "ok"
               /\ result'.source = "cache"
               /\ remoteCalls' = remoteCalls
               /\ cache' = cache
          ELSE /\ result'.kind = "raise" => result'.exc = "MoleculeNotFound"
               /\ result'.kind = "ok" =>
                     /\ result'.source = "API"
                     /\ remoteCalls' = remoteCalls + 1
                     /\ IdentifierInCache(query, cache')
                     /\ Range(result'.records) \subseteq cache']_vars

\* the bulk store holds no row for the Key of compound c, neither by the full
\* Key nor by its 14-character prefix
AbsentFromMaster(c) ==
    \A m \in masterCids : Prefix14(KeyOf(m)) # Prefix14(KeyOf(c))

\* C12: in offline-basic mode a query for a Key the bulk store does not hold,
\* neither exactly nor by 14-character prefix, ends with MoleculeNotFound and
\* returns no result.
C12_AbsentKeyIsNotFound ==
    (/\ spc = "idle"
     /\ query.mode = "offline-basic"
     /\ Lower(query.type) = "inchikey"
     /\ master = "ok"
     /\ AbsentFromMaster(query.c)
     /\ tried # <<>>)
    => result.kind = "raise" /\ result.exc = "MoleculeNotFound"

(***************************************************************************)
(* Claims about the bulk-store lookups, checked under SpecLookup           *)
(***************************************************************************)
FullKeyMatches(r) == r # NoneRow /\ KeyOf(r.cid) = KeyOf(lkOut.c)
PrefixMatches(r) == r # NoneRow /\ Prefix14(KeyOf(r.cid)) = Prefix14(KeyOf(lkOut.c))
StoredFullKey == lkFile = "ok" /\ lkOut.c \in lkRows
ReturnedRows == {lkOut.records[i] : i \in 1..Len(lkOut.records)} \ {NoneRow}

\* C13: a lookup returns the row whose full Key equals the query Key whenever
\* the store holds one; a returned row that does not match the full Key
\* matches its 14-character prefix and is returned only when no row matches
\* the full Key; query_pubchem_database reports matched_full = TRUE exactly
\* when the full Key matched.
C13_ExactBeforePrefix ==
    lkOut.fn # "none" =>
      /\ StoredFullKey =>
            /\ lkOut.kind = "records"
            /\ ReturnedRows # {}
            /\ \A r \in ReturnedRows : FullKeyMatches(r)
      /\ \A r \in ReturnedRows :
            ~FullKeyMatches(r) => PrefixMatches(r) /\ ~StoredFullKey
      /\ (lkOut.fn = "query_pubchem_database" /\ lkOut.kind = "records") =>
            (lkOut.matched_full <=> StoredFullKey)

\* the full Key is not stored and the lookup returned the row sharing its prefix
C13_Witness ==
    /\ lkOut.fn = "db_lookup"
    /\ ~StoredFullKey
    /\ ReturnedRows # {}
    /\ \A r \in ReturnedRows : PrefixMatches(r)
    /\ lkRows # {}

(***************************************************************************)
(* Further claims about auto mode, checked under SpecSearch                *)
(***************************************************************************)
\* the precondition of a tier does not hold
PreconditionFails(tier) ==
    \/ tier \in {"offline-basic", "offline-advanced"} /\ master # "ok"
    \/ tier = "offline-advanced" /\ ~cacheFile
    \/ tier = "online-cached" /\ ~cacheDir

\* a tier whose precondition fails is passed over: nothing is looked up,
\* fetched or stored, no error is raised, and the next tier is up
SkippedSilently ==
    (/\ spc = "auto"
     /\ tierIdx <= Len(ConfiguredOrder)
     /\ PreconditionFails(ConfiguredOrder[tierIdx]))
    => /\ tried' = Append(tried, [tier |-> ConfiguredOrder[tierIdx], kind |-> "skipped",
                                  exc |-> "none", n |-> 0, calls |-> 0])
       /\ cache' = cache
       /\ cacheFile' = cacheFile
       /\ remoteCalls' = remoteCalls
       /\ tierIdx' = tierIdx + 1
       /\ IF tierIdx < Len(ConfiguredOrder)
          THEN spc' = "auto" /\ result' = result
          ELSE spc' = "idle" /\ result'.kind = "raise"
                             /\ result'.exc = "MoleculeNotFound"

\* default list, cache directory not writable, readable bulk store without the
\* Key, compound known to the remote service, no failure of a store or of the
\* remote service: the finished search was resolved by online-only
BulkMissResolvedOnline ==
    (/\ spc = "idle"
     /\ searches >= 1
     /\ query.priority = <<>>
     /\ Lower(query.type) = "inchikey"
     /\ query.c \in Compounds
     /\ master = "ok"
     /\ AbsentFromMaster(query.c)
     /\ ~cacheDir
     /\ \A i \in 1..Len(tried) : ~EnvironmentFault(tried[i]))
    => result.kind = "ok" /\ result.tier = "online-only"

\* C14: in auto mode a tier whose precondition fails (bulk store missing or
\* unreadable for the offline tiers, cache file missing for offline-advanced,
\* cache directory not writable for online-cached) is skipped without running
\* its resolver and without an error, and the next tier is tried; so with an
\* unwritable cache directory and a bulk miss the query is resolved by
\* online-only.
C14_FailedPreconditionSkipsTier ==
    [][SkippedSilently /\ BulkMissResolvedOnline']_vars

\* the identifier type a strategy works with once structure notations have
\* been turned into a Key
LookupType(type) ==
    IF Lower(type) \in {"smiles", "canonicalsmiles", "isomericsmiles", "inchi"}
    THEN "inchikey" ELSE Lower(type)

\* the types a strategy accepts, and the types the cache table has a column for
AcceptedBy(tier) ==
    {"cid", "title", "iupacname", "molecularformula", "inchi", "inchikey", "smiles",
     "canonicalsmiles", "cas"}
    \cup (IF tier = "offline-basic" THEN {} ELSE {"isomericsmiles"})
CacheColumns ==
    {"cid", "inchikey", "inchikey14", "molecularformula", "inchi", "tpsa", "charge",
     "canonicalsmiLES", "isomericsmiles", "title", "iupacname", "xlogp", "exactmass",
     "complexity", "monoisotopicmass"}

\* the strategy cannot look the identifier type up
CannotLookUp(tier, type) ==
    \/ Lower(type) \notin AcceptedBy(tier)
    \/ /\ tier \in {"offline-advanced", "online-cached"}
       /\ LookupType(type) \notin CacheColumns

\* C15: a strategy run with an identifier type it cannot look up fails with
\* UnsupportedIdentifierForMode and with nothing else, so auto mode passes on
\* to the next tier instead of aborting; this covers the types normalize_query
\* accepts but the cache column map does not hold.
C15_UnsupportedTypeIsSoftFailure ==
    \A i \in 1..Len(tried) :
      (tried[i].kind # "skipped" /\ CannotLookUp(tried[i].tier, query.type)) =>
         /\ tried[i].kind = "raise"
         /\ tried[i].exc = "UnsupportedIdentifierForMode"
         /\ \/ i < Len(tried)
            \/ spc = "auto"
            \/ RaisedNotFound

(***************************************************************************)
(* Further claims about update_database, checked under SpecIngest          *)
(***************************************************************************)
FailedOutcomes == {"dl_fail", "md5_fail", "bad_checksum", "proc_fail", "raised"}
SucceededOutcomes == {"ingested", "skip"}

\* the archives k-2, k-1 and k of the plan all failed at the download of the
\* archive body, and the archive before them (if any) did not fail
ThreeBodyDownloadsFailed(k) ==
    /\ k >= 3
    /\ k <= Len(outcomes)
    /\ \A j \in (k - 2)..k : outcomes[j] = "dl_fail"
    /\ k > 3 => outcomes[k - 3] \in SucceededOutcomes

\* an archive nothing has been done to: no ledger row, nothing downloaded
Untouched(a) ==
    /\ ledger[a] = NoRow
    /\ gzFile[a] = "none"
    /\ md5File[a] = "none"
    /\ compound_data[a] = "none"

\* C16: when the download of the archive body fails for three archives of the
\* plan in a row, starting from a counter of zero, the run stops after the
\* third: no later archive of the plan is begun, and on a store that was empty
\* when the run started the later archives have no ledger row and no
\* downloaded file.
C16_ThreeDownloadFailuresStopRun ==
    \A k \in 1..Len(plan) :
      ThreeBodyDownloadsFailed(k) =>
        /\ Len(outcomes) = k
        /\ pc = "idle"
        /\ idx = k
        /\ log.a = plan[k]
        /\ runs = 1 => \A j \in (k + 1)..Len(plan) : Untouched(plan[j])

\* three body downloads failed in a row and the plan holds a later archive
C16_Witness ==
    \E k \in 1..Len(plan) : ThreeBodyDownloadsFailed(k) /\ k < Len(plan) /\ runs = 1

RECURSIVE TrailingFailures(_)
\* the number of failed archives at the end of the record
TrailingFailures(o) ==
    IF o = <<>> \/ o[Len(o)] \notin FailedOutcomes THEN 0
    ELSE 1 + TrailingFailures(SubSeq(o, 1, Len(o) - 1))

\* C17: throughout a run the consecutive-failure counter is the number of
\* archives that failed since the last archive that was ingested or skipped as
\* unchanged, or since the start of the run: a failed archive adds one, a
\* success sets it to zero.
C17_CounterCountsFailuresSinceSuccess ==
    /\ consecutive_failures = TrailingFailures(outcomes)
    /\ \A i \in 1..Len(outcomes) : outcomes[i] \in FailedOutcomes \cup SucceededOutcomes

\* two archives failed after one that succeeded
C17_Witness ==
    /\ Len(outcomes) >= 3
    /\ outcomes[Len(outcomes) - 2] \in SucceededOutcomes
    /\ outcomes[Len(outcomes) - 1] \in FailedOutcomes
    /\ outcomes[Len(outcomes)] \in FailedOutcomes
    /\ consecutive_failures = 2

(***************************************************************************)
(* Claims about planning, checked under SpecPlan                           *)
(***************************************************************************)
\* update_database got past the disk-space check and built its plan
PlanningStep == runs' = runs + 1 /\ call'.disk_ok

\* the timestamps of the ledger's ingested entries
IngestedStamps ==
    {ledger[a].last_ingested :
        a \in {b \in Archives : ledger[b].status = "ingested"
                                /\ ledger[b].last_ingested > 0}}

\* the archives the run is to cover, before any cap
Uncapped ==
    IF IngestedStamps = {} THEN FullArchives
    ELSE {a \in MonthlyArchives :
            MDate(a) >= (CHOOSE d \in IngestedStamps : \A e \in IngestedStamps : e <= d)}

\* C18: the plan is the full snapshot exactly when no ledger entry is
\* 'ingested' with a usable last_ingested; otherwise it is the monthly archives
\* dated at or after the largest last_ingested of the ingested entries, failed
\* entries playing no part; with max_files given the plan holds at most
\* max_files archives.
C18_PlanFromLastIngested ==
    [][PlanningStep =>
         /\ call'.max_files = 0 => Range(plan') = Uncapped
         /\ call'.max_files > 0 =>
              /\ Range(plan') \subseteq Uncapped
              /\ Len(plan') <= call'.max_files
              /\ Len(plan') < call'.max_files => Range(plan') = Uncapped
         /\ Len(plan') = Cardinality(Range(plan'))]_vars

\* a plan was built from a ledger whose latest timestamp belongs to a failed
\* entry, and it starts from the older, ingested one
C18_Witness ==
    /\ runs >= 1
    /\ call.disk_ok
    /\ pc = "loop"
    /\ IngestedStamps = {1}
    /\ \E a \in Archives : ledger[a].status = "failed" /\ ledger[a].last_ingested = 2
    /\ plan # <<>>
    /\ Range(plan) \subseteq MonthlyArchives

(***************************************************************************)
(* The disk-space check, checked under SpecIngest                          *)
(***************************************************************************)
\* update_database was called with less free space than it requires
LowDiskStep == runs' = runs + 1 /\ ~call'.disk_ok

\* C19: when free disk space is below the minimum at the start of
\* update_database, the run aborts before the remote server is contacted and
\* changes nothing: the store file, the ledger, the compound table and the
\* download and processed folders are as they were before the call.
C19_LowDiskLeavesNoTrace ==
    [][LowDiskStep =>
         /\ pc' = "idle"
         /\ UNCHANGED <<plan, idx, log, outcomes>>
         /\ UNCHANGED <<fsInit, ledger, compound_data, gzFile, md5File, sdfFile>>]_vars

(***************************************************************************)
(* Claims about download_file_with_resume, checked under SpecDownload      *)
(***************************************************************************)
\* what holds of the call at every moment
DownloadBounded ==
    /\ attempt <= max_retries
    /\ dpc = "attempt" => attempt < max_retries /\ ret = "pending"
    /\ dpc = "done" => ret \in {"local_file_path", "None"}
    /\ ret = "local_file_path" => /\ dpc = "done"
                                  /\ attempt >= 1
                                  /\ localSize = ftpSize
    /\ ret = "None" => /\ dpc = "done"
                       /\ localSize = -1

\* C20: download_file_with_resume terminates after at most max_retries
\* attempts; it returns the local path only after an attempt that left the
\* local file as large as the remote one, and otherwise returns None with no
\* local file of that name left.
C20_DownloadTerminates ==
    /\ []DownloadBounded
    /\ (dpc = "attempt") ~> (dpc = "done")

\* all attempts were used, the last one ending in a size mismatch
C20_Witness ==
    /\ dpc = "done"
    /\ ret = "None"
    /\ attempt = max_retries
    /\ backoff = INITIAL_BACKOFF

(***************************************************************************)
(* Claims about attempt_download, checked under SpecAttempt                *)
(***************************************************************************)
\* attempt_download ran at offset S on a local file of S bytes, S <= R
ResumedAtItsLength ==
    /\ applied.fn = "attempt_download"
    /\ applied.start = (IF applied.size = -1 THEN 0 ELSE applied.size)
    /\ applied.start <= applied.ftp_size

\* the server sent everything from the offset it was asked for
SentMissingBytes ==
    /\ applied.how = "ended"
    /\ applied.received = applied.ftp_size - applied.start

\* the server answered REST with a 5xx reply and then sent the whole file
RestRejectedThenSentAll ==
    /\ applied.how \in {"rest_refused", "rest_refused_unnamed"}
    /\ applied.again = applied.ftp_size

\* C21: started at offset S on a valid partial file of S bytes with remote
\* size R >= S, attempt_download appends the R-S missing bytes so the file
\* ends R bytes long; when the server rejects REST it truncates the file and
\* transfers all R bytes instead of failing; it reports success exactly when
\* the final local size equals the remote size.
C21_ResumeCompletesOrRestarts ==
    ResumedAtItsLength =>
      /\ SentMissingBytes =>
           /\ ~applied.out.raised
           /\ applied.out.size = applied.ftp_size
      /\ RestRejectedThenSentAll =>
           /\ ~applied.out.raised
           /\ applied.out.size = applied.ftp_size
      /\ ~applied.out.raised =>
           (applied.out.ok <=> applied.out.size = applied.ftp_size)

(***************************************************************************)
(* Claims about interrupted runs, checked under SpecCrash                  *)
(***************************************************************************)
\* the run is cut short while the archive log.a is in work
InterruptedPass ==
    /\ pc \in {"dl_gz", "dl_md5", "verify", "unpack"}
    /\ pc' = "idle"
    /\ Last(log'.steps) = "interrupted"

\* the first complete call of update_database after an interrupted pass
RunAfterInterrupt ==
    /\ pc = "idle"
    /\ Ended("interrupted")
    /\ runs' = runs + 1
    /\ call'.disk_ok
    /\ call'.max_files = 0

\* C22: when a run is interrupted while an archive is being ingested, the
\* compound rows already written remain, the archive's ledger entry stays
\* absent or 'failed' (it is 'ingested' only if it was before the pass began),
\* and a later run takes the archive up again, each compound keeping its one
\* row.
C22_InterruptedArchiveIsRedone ==
    [][/\ InterruptedPass =>
            /\ \A b \in Archives :
                 compound_data[b] # "none" => compound_data'[b] = compound_data[b]
            /\ ledger' = ledger
            /\ ledger'[log.a].status = "ingested" =>
                 (Did("md5_changed") \/ Did("md5_unfetched"))
       /\ RunAfterInterrupt => log.a \in Range(plan')]_vars

(***************************************************************************)
(* Claims about concurrent online-cached searches, checked under           *)
(* SpecWorkers                                                             *)
(***************************************************************************)
OneRowPerCid == \A r1, r2 \in cache : r1.cid = r2.cid => r1 = r2

\* every row keeps all it held, except possibly its CAS
RowsKeepTheirValues ==
    \A r \in cache : \E r2 \in cache' : r2.cid = r.cid /\ r2.title = r.title

\* C23: after any sequence of online-cached searches, two concurrent ones that
\* miss on the same identifier and both store what they fetched included,
\* cached_molecules holds at most one row per CID, and what was first written
\* for a CID is not overwritten by a later insert (only CAS may change).
C23_InsertIfAbsentUnderConcurrency ==
    /\ []OneRowPerCid
    /\ [][RowsKeepTheirValues]_vars

\* one of two searches for the same compound has stored its record, the other
\* is about to store a record with a different Title
C23_Witness ==
    /\ workers["w1"].pc = "store"
    /\ workers["w1"].api # <<>>
    /\ \E r \in cache : /\ r.cid = workers["w1"].api[1].cid
                        /\ r.title # workers["w1"].api[1].title

(***************************************************************************)
(* Claims about save_to_database, checked under SpecSave                   *)
(***************************************************************************)
Saved == applied.fn = "save_to_database"

\* C24: save_to_database inserts a record only if no row with its CID exists:
\* saving the same records a second time (after a save that went through)
\* changes nothing, a row that exists is
\* not modified by a later record with its CID, and a call with no records or
\* no columns writes nothing.
C24_SaveIsInsertIfAbsent ==
    Saved =>
      /\ ~applied.fault => applied.again = applied.out
      /\ applied.rows \subseteq applied.out
      /\ \A r \in applied.out \ applied.rows :
           /\ \A old \in applied.rows : old.cid # r.cid
           /\ \E i \in 1..Len(applied.data) : applied.data[i].cid = r.cid
      /\ \A r1, r2 \in applied.out : r1.cid = r2.cid => r1 = r2
      /\ (applied.data = <<>> \/ applied.columns = <<>>) => applied.out = applied.rows

\* a record was saved whose CID already had a row with another Title, in the
\* same call as a record that was new
C24_Witness ==
    /\ Saved
    /\ applied.out # applied.rows
    /\ \E i \in 1..Len(applied.data), old \in applied.rows :
         old.cid = applied.data[i].cid /\ old.title # applied.data[i].title
(***************************************************************************)
(* C25: two formula strings with the same elements and counts written in   *)
(* a different order give identical results in every strategy, and in      *)
(* online-cached mode the second string is answered from the cache row the *)
(* first one stored.                                                       *)
(***************************************************************************)
SameComposition(v, w) ==
    /\ {v[i] : i \in 2..(Len(v) - 1)} = {w[i] : i \in 2..(Len(w) - 1)}
    /\ v[Len(v)] = w[Len(w)]

StoredByFirst ==
    /\ applied.mode = "online-cached"
    /\ applied.first.out.kind = "records"

C25_EquivalentFormulasSameResults ==
    (applied.fn = "search" /\ SameComposition(applied.values[1], applied.values[2])) =>
      /\ applied.first = applied.second
      /\ StoredByFirst =>
           /\ applied.later.out = Records(applied.first.out.records, "cache")
           /\ applied.later.calls = applied.first.calls
           /\ applied.later.cache = applied.first.cache

\* a spelling out of the standard order fetched and stored a row, and the
\* other spelling was then answered from it
C25_Witness ==
    /\ applied.fn = "search"
    /\ StoredByFirst
    /\ applied.values[1] # applied.values[2]
    /\ applied.values[1] # canonicalize_formula(applied.values[1])
    /\ applied.first.out.source = "API"
    /\ applied.later.out.source = "cache"
(***************************************************************************)
(* C26: when the remote service answers the resolution of an identifier it *)
(* does not know (HTTP 404), the online strategy reports no match: the     *)
(* attempt ends in MoleculeNotFound, and auto mode goes on to the next     *)
(* strategy instead of aborting.                                           *)
(***************************************************************************)
OnlineTiers == {"online-only", "online-cached"}

\* the i-th attempt asked the remote service about an identifier it does not know
ResolvedNothing(i) ==
    /\ tried[i].tier \in OnlineTiers
    /\ tried[i].calls = 1
    /\ query.c \notin Compounds

C26_Resolution404IsNoMatch ==
    \A i \in 1..Len(tried) :
      ResolvedNothing(i) =>
         /\ tried[i].kind = "raise"
         /\ tried[i].exc = "MoleculeNotFound"
         /\ \/ i < Len(tried)
            \/ spc = "auto"
            \/ RaisedNotFound
(***************************************************************************)
(* C27: search() rejects a query that is not a mapping with exactly one    *)
(* pair, in every mode: TypeError for a non-mapping, ValueError for zero   *)
(* or several keys, with no strategy attempted, no cached row read or      *)
(* written and no remote call made.                                        *)
(***************************************************************************)
C27_MalformedQueryRejectedFirst ==
    [][(searches' = searches + 1 /\ Malformed(query')) =>
         /\ spc' = "idle"
         /\ result'.kind = "raise"
         /\ result'.exc = IF query'.shape.mapping THEN "ValueError" ELSE "TypeError"
         /\ tried' = <<>>
         /\ cache' = cache
         /\ remoteCalls' = remoteCalls]_vars

\* a non-mapping was rejected in auto mode although a cached row and a readable
\* bulk store were there to be searched
C27_Witness ==
    /\ Malformed(query)
    /\ query.mode = "auto"
    /\ ~query.shape.mapping
    /\ result.exc = "TypeError"
    /\ cache # {}
    /\ master = "ok"
(***************************************************************************)
(* C28: a search in online-only mode neither reads nor writes the cache:   *)
(* the cached rows and the cache file are the same after the call as       *)
(* before it, whatever the outcome, and the result is the one the same     *)
(* remote answer gives when there is no cache at all.                      *)
(***************************************************************************)
\* what the call returns for the remote answer resp when no cache exists
WithoutCache(resp) ==
    Returned(search_online_only([query EXCEPT !.type = Lower(@)], {}, FALSE,
                                remoteCalls, resp).out, "online-only")

C28_OnlineOnlyLeavesCacheAlone ==
    [][(spc = "direct" /\ query.mode = "online-only" /\ spc' = "idle") =>
         /\ cache' = cache
         /\ cacheFile' = cacheFile
         /\ \E resp \in RemoteResponses(query.c) : result' = WithoutCache(resp)]_vars

\* an online-only search fetched a compound whose row an earlier search had
\* cached
C28_Witness ==
    /\ spc = "idle"
    /\ query.mode = "online-only"
    /\ result.kind = "ok"
    /\ result.source = "API"
    /\ IdentifierInCache(query, cache)
(***************************************************************************)
(* C29: a well-formed registry number that fails the check-digit test is   *)
(* stored in cas_mapping with confidence 1 and one that passes it with     *)
(* confidence 2; and when a compound's cross-references hold both kinds,   *)
(* the registry number attached to its remote lookup result passes the     *)
(* test, whatever the order of the list.                                   *)
(***************************************************************************)
FailsCheckDigit(rn) == WellFormed(rn) /\ ~is_cas_rn(rn)

\* the confidence values stored for a registry number of the enriched compound
StoredConfidence(rn) ==
    {r.confidence : r \in {t \in applied.table : t.cas = rn /\ t.cid = applied.cid}}

BothKinds(rns) ==
    /\ \E i \in 1..Len(rns) : is_cas_rn(rns[i])
    /\ \E i \in 1..Len(rns) : FailsCheckDigit(rns[i])

C29_CheckDigitDecidesConfidence ==
    applied.fn = "cas" =>
      /\ \A i \in 1..Len(applied.rns) :
           /\ FailsCheckDigit(applied.rns[i]) => StoredConfidence(applied.rns[i]) = {1}
           /\ is_cas_rn(applied.rns[i]) => StoredConfidence(applied.rns[i]) = {2}
      /\ BothKinds(applied.rns) => is_cas_rn(applied.attached)

\* a list that starts with a number failing the check digit and holds a
\* validating one further on
C29_Witness ==
    /\ applied.fn = "cas"
    /\ Len(applied.rns) >= 2
    /\ FailsCheckDigit(applied.rns[1])
    /\ BothKinds(applied.rns)
    /\ applied.attached # applied.rns[1]
    /\ StoredConfidence(applied.rns[1]) = {1}
(***************************************************************************)
(* C30: get_archive_state returns nothing for a name that was never        *)
(* upserted; after upserts for a name it returns the status of the most    *)
(* recent one and the md5 that one passed (an upsert that passes no md5    *)
(* leaves the stored one); and after any sequence of upserts the table     *)
(* holds at most one row per archive name.                                 *)
(***************************************************************************)
UpsertsOf(name) == {i \in 1..Len(applied.calls) : applied.calls[i].name = name}

MostRecent(name) == applied.calls[Max(UpsertsOf(name))]

C30_LedgerKeyedByName ==
    applied.fn = "ledger" =>
      \A name \in Archives :
        LET state == get_archive_state(LedgerOf(applied.table), name)
        IN /\ UpsertsOf(name) = {} => state = NoRow
           /\ UpsertsOf(name) # {} =>
                /\ state.status = MostRecent(name).status
                /\ MostRecent(name).md5 # "keep" => state.md5 = MostRecent(name).md5
           /\ Cardinality({r \in applied.table : r.archive_name = name}) <= 1

\* one name upserted twice with different values, another never
C30_Witness ==
    /\ applied.fn = "ledger"
    /\ Cardinality(UpsertsOf(1)) >= 2
    /\ UpsertsOf(2) = {}
    /\ applied.calls[1].status = "failed"
    /\ MostRecent(1).status = "ingested"
    /\ MostRecent(1).md5 = "h2"
    /\ get_archive_state(LedgerOf(applied.table), 1).md5 = "h2"
(***************************************************************************)
(* C31: across runs of update_database a ledger entry changes status only  *)
(* from absent to ingested, from absent to failed, or from failed to       *)
(* ingested; an ingested entry never becomes failed.                       *)
(***************************************************************************)
AllowedStatusChanges ==
    {<<"absent", "ingested">>, <<"absent", "failed">>, <<"failed", "ingested">>}

C31_LedgerStatusChanges ==
    [][\A a \in Archives :
         ledger'[a].status # ledger[a].status =>
            <<ledger[a].status, ledger'[a].status>> \in AllowedStatusChanges]_vars
(***************************************************************************)
(* C32: validate_start_position returns 0 when there is no local file;     *)
(* returns 0 and deletes the file when it is not a valid compressed stream *)
(* or is longer than the remote file; and otherwise returns the file's     *)
(* length, which may equal the remote size, and leaves the file alone.     *)
(***************************************************************************)
NoLocalFile == applied.file.size = -1

Discarded ==
    /\ ~NoLocalFile
    /\ \/ ~validate_partial_file(applied.file.stream)
       \/ applied.file.size > applied.ftp_size

C32_StartPosition ==
    applied.fn = "resume" =>
      /\ NoLocalFile => applied.out = [start |-> 0, size |-> -1]
      /\ Discarded => applied.out = [start |-> 0, size |-> -1]
      /\ (~NoLocalFile /\ ~Discarded) =>
            applied.out = [start |-> applied.file.size, size |-> applied.file.size]

\* a whole file as long as the remote one is kept and resumed at its end
C32_Witness ==
    /\ applied.fn = "resume"
    /\ applied.file.stream = "complete"
    /\ applied.file.size = applied.ftp_size
    /\ applied.out.start = applied.ftp_size
    /\ applied.out.size = applied.file.size
(***************************************************************************)
(* C33: within one call of download_file_with_resume, after every failed   *)
(* attempt and before the next one starts, the partial local file has been *)
(* deleted and a backoff delay has elapsed, which is 5 seconds after the   *)
(* first failure and doubles after each further one.                       *)
(***************************************************************************)
\* an attempt failed and another one follows
AttemptFailedAndRetried ==
    /\ dpc = "attempt"
    /\ dpc' = "attempt"
    /\ attempt' = attempt + 1

C33_CleanupAndBackoffBetweenAttempts ==
    [][AttemptFailedAndRetried =>
         /\ localSize' = -1
         /\ attempt = 0 => backoff = INITIAL_BACKOFF
         /\ backoff' = backoff * 2]_vars
(***************************************************************************)
(* C34: once the per-archive protocol has finished for an archive, neither *)
(* its compressed file in the download folder nor its extracted file in    *)
(* the processed folder is left behind.                                    *)
(***************************************************************************)
\* the loop is between two archives, or the run is over
BetweenArchives == pc \in {"loop", "idle"}

C34_NoArtifactAfterProtocol ==
    (BetweenArchives /\ Steps # <<>>) =>
        /\ gzFile[log.a] = "none"
        /\ ~sdfFile[log.a]
(***************************************************************************)
(* C35: for a non-CID identifier, when the property record has an empty    *)
(* IUPACName and the secondary lookup in the per-compound view fails (HTTP *)
(* error or transport error) or finds no name, the lookup still succeeds,  *)
(* and IUPACName is the record's Title when it has one.                    *)
(***************************************************************************)
\* neither request to the per-compound view produced a name
SecondaryLookupGaveNoName ==
    /\ applied.heading # "name"
    /\ applied.full # "name"

C35_TitleFallbackWhenViewFails ==
    (/\ applied.fn = "iupac"
     /\ ~applied.by_cid
     /\ applied.rec.iupac = ""
     /\ SecondaryLookupGaveNoName) =>
        /\ applied.out.kind = "ok"
        /\ applied.rec.title # "" => applied.out.rec.iupac = applied.rec.title
(***************************************************************************)
(* C36: process_file emits records in input order, exactly one per block   *)
(* closed by a terminator line that contains at least one mapped tag: a    *)
(* block with no mapped tag yields no record, unmapped tags never appear   *)
(* as output fields, the field names are the mapped names of the table,    *)
(* and a trailing block without a terminator line yields no record.        *)
(***************************************************************************)
\* the blocks of a file that end with a terminator line, in input order
RECURSIVE ClosedBlocks(_, _, _)
ClosedBlocks(file, i, block) ==
    IF i > Len(file) THEN <<>>
    ELSE IF file[i] = "$$$$" THEN <<block>> \o ClosedBlocks(file, i + 1, <<>>)
    ELSE ClosedBlocks(file, i + 1, Append(block, file[i]))

\* the output fields whose tag stands in the block
MappedNamesIn(block) ==
    {k \in DOMAIN FIELDS_TO_EXTRACT :
        \E i \in 1..Len(block) :
            block[i] \in DOMAIN TagOf /\ TagOf[block[i]] = FIELDS_TO_EXTRACT[k]}

HasMappedTag(block) == MappedNamesIn(block) # {}

ExpectedFields(file) ==
    LET blocks == SelectSeq(ClosedBlocks(file, 1, <<>>), HasMappedTag)
    IN [i \in 1..Len(blocks) |-> MappedNamesIn(blocks[i])]

ProcessedAndMarked(a) ==
    /\ pc = "unpack"
    /\ plan[idx] = a
    /\ ledger'[a].status = "ingested"

C37_IngestedOnlyIfCommitted ==
    [][\A a \in Archives :
           ProcessedAndMarked(a) => compound_data'[a] # "none"]_vars

(***************************************************************************)
(* C38: in online-cached mode, whenever the cache misses and the remote    *)
(* service returns a record for the query, the search returns a non-empty  *)
(* result with that compound and never raises MoleculeNotFound after the   *)
(* fetch and store, whatever the identifier type.                          *)
(***************************************************************************)
\* a finished online-cached search for a compound the remote service knows,
\* by a supported identifier type, that the cache did not hold, with no
\* failure of the store or of the transport
MissAnsweredByRemote ==
    /\ spc = "direct"
    /\ spc' = "idle"
    /\ query.mode = "online-cached"
    /\ Lower(query.type) \in ADV_ALLOWED
    /\ query.c \in Compounds
    /\ ~IdentifierInCache(query, cache)
    /\ ~EnvironmentFailure(result')

C38_FetchedCompoundIsReturned ==
    [][MissAnsweredByRemote =>
         /\ result'.kind = "ok"
         /\ \E i \in 1..Len(result'.records) : result'.records[i].cid = query.c]_vars

(***************************************************************************)
(* C39: if the first full-snapshot run ingested only part of the snapshot  *)
(* because max_files cut the plan short, later runs still plan the         *)
(* remaining full-snapshot archives, so that with a healthy remote every   *)
(* archive of the full snapshot is eventually ingested.                    *)
(***************************************************************************)
\* the full-snapshot archives no run has ingested yet
RemainingFull == {a \in FullArchives : ledger[a].status # "ingested"}

\* the first run was a full-snapshot run capped by max_files, it ingested all
\* it had planned, and the next run is being planned now
SecondRunAfterCappedFirst ==
    /\ pc = "idle"
    /\ runs = 1
    /\ runs' = 2
    /\ call'.disk_ok
    /\ call.max_files # 0
    /\ plan = SubSeq(SortedSeq(FullArchives), 1, call.max_files)
    /\ \A i \in 1..Len(plan) : ledger[plan[i]].status = "ingested"
    /\ RemainingFull # {}

C39_LaterRunsPlanRestOfSnapshot ==
    [][SecondRunAfterCappedFirst =>
         \E i \in 1..Len(plan') : plan'[i] \in RemainingFull]_vars

(***************************************************************************)
(* C40: after any sequence of enrich_cas_for_cids runs, a (registry        *)
(* number, CID) pair that the cross-reference list has reported in some    *)
(* run is stored in cas_mapping with source 'xref', even if a synonym      *)
(* match inserted the pair in an earlier run; a synonym match never        *)
(* replaces or outlives an authoritative mapping for the same pair.        *)
(***************************************************************************)
\* the pairs some run's cross-reference list has reported
XrefPairs ==
    UNION {{<<applied.runs[i].rns[j], applied.runs[i].cid>> :
               j \in 1..Len(applied.runs[i].rns)} : i \in 1..Len(applied.runs)}

C40_XrefSourceWins ==
    applied.fn = "enrich" =>
        \A p \in XrefPairs :
            \E r \in applied.table :
                r.cas = p[1] /\ r.cid = p[2] /\ r.source = "xref"
====
